---- MODULE Spec2Model ----
(***************************************************************************)
(* Conversational retrieval orchestration engine of rag-agent-project:     *)
(* the user_memories store (saveMemory), the RAG retrieval engine          *)
(* (getRagContextForQuery), the retry wrapper (withRetry) and the chat     *)
(* orchestrator (handleChat).                                              *)
(*                                                                         *)
(* Text is a sequence of one-character strings, so that trimming, regular  *)
(* expression tests and templating are computed and not assumed.           *)
(***************************************************************************)
EXTENDS Integers, Sequences, FiniteSets, TLC

VARIABLES
    \* ---- user_memories table and its callers (PostgresMemoryRepository) ----
    rows,        \* the table, in insertion order
    nextId,      \* the SERIAL sequence behind user_memories.id
    nCalls,      \* number of saveMemory calls made directly on the repository
    lastCall,    \* arguments and outcome of the most recent direct call
    latestFact,  \* history: (userId, memoryKey) -> content of the last completed fact save
    chatSaves,   \* history: number of completed saves that took the chat path
    \* ---- RAG retrieval engine (ragEngine.getRagContextForQuery) ----
    ragIn,       \* the raw chunk list and threshold of the current query
    ragOut,      \* the RetrievalResult computed for it
    \* ---- retry wrapper (OpenAIAdapter.withRetry) ----
    rt,          \* one run of withRetry: position, attempt, calls, delays, log, outcome
    \* ---- chat orchestrator (handleChat) ----
    chunks,      \* the document chunk table, each row with its distance to the question
    req,         \* the request being served: position, locals, calls made, response
    \* ---- conversation_id column detection (ensureConversationIdColumn) ----
    conversationIdColumnChecked,  \* module-level flag: the detection has completed
    conversationIdColumnExists,   \* module-level flag: its cached answer
    columnCalls, \* the calls in progress, the queries issued, the store's schema
    \* ---- concurrent fact writers (saveMemory called by concurrent requests) ----
    writers,     \* each writer's position, arguments and embedding
    lastUpsert,  \* history: (userId, memoryKey) -> the writer whose upsert ran last, if any
    \* ---- memory ranking (retrieveMemory) ----
    rankIn,      \* the rows, their distances and ages, the caller's arguments
    rankOut,     \* the candidates fetched and the contents returned
    \* ---- fact extraction (extractDynamicKeyFact) ----
    cls,         \* a completion reply, the parsed candidate, what handleChat does next
    \* ---- classifier functions applied to drawn arguments ----
    pure,        \* the function, its arguments, its result
    \* ---- conversation-scoped calls on the repository ----
    conv         \* a table with the conversation_id column, the calls made on it

vars == <<rows, nextId, nCalls, lastCall, latestFact, chatSaves, ragIn, ragOut, rt,
          chunks, req, conversationIdColumnChecked, conversationIdColumnExists,
          columnCalls, writers, lastUpsert, rankIn, rankOut, cls, pure, conv>>

storeVars == <<rows, nextId, nCalls, lastCall, latestFact, chatSaves>>
ragVars == <<ragIn, ragOut>>
retryVars == <<rt>>
chatVars == <<chunks, req>>
columnVars == <<conversationIdColumnChecked, conversationIdColumnExists, columnCalls>>
writerVars == <<writers, lastUpsert>>
rankVars == <<rankIn, rankOut>>
clsVars == <<cls>>
pureVars == <<pure>>
convVars == <<conv>>
extraVars == <<columnVars, writerVars, rankVars, clsVars, pureVars, convVars>>
nonChatVars == <<nCalls, lastCall, latestFact, chatSaves, ragIn, ragOut, rt, extraVars>>

\* JavaScript undefined and SQL NULL, kept as strings so that every key compares
Undefined == "<undefined>"
NULL == "<null>"

(***************************************************************************)
(* Text helpers                                                            *)
(***************************************************************************)
WS == {" ", "\t", "\n"}

RECURSIVE TrimStart(_)
TrimStart(s) ==
    IF s = <<>> THEN s
    ELSE IF Head(s) \in WS THEN TrimStart(Tail(s)) ELSE s

RECURSIVE TrimEnd(_)
TrimEnd(s) ==
    IF s = <<>> THEN s
    ELSE IF s[Len(s)] \in WS THEN TrimEnd(SubSeq(s, 1, Len(s) - 1)) ELSE s

\* String.prototype.trim
trim(s) == TrimEnd(TrimStart(s))

(***************************************************************************)
(* Embedding port: embedText                                               *)
(***************************************************************************)
\* embedText(text): trims, rejects empty text before any port call, otherwise
\* returns the port's vector (named here by the text it embeds) or rethrows
\* the port's failure.  portOk is the outcome of the (retried) port call.
embedTextMutAcceptEmpty(text, portOk) ==
    LET normalized == trim(text) IN
    IF portOk
    THEN [threw |-> FALSE, called |-> TRUE, embedding |-> normalized]
    ELSE [threw |-> TRUE, called |-> TRUE, embedding |-> <<>>]

embedText(text, portOk) ==
    LET normalized == trim(text) IN
    IF normalized = <<>>
    THEN [threw |-> TRUE, called |-> FALSE, embedding |-> <<>>]
    ELSE IF portOk
         THEN [threw |-> FALSE, called |-> TRUE, embedding |-> normalized]
         ELSE [threw |-> TRUE, called |-> TRUE, embedding |-> <<>>]

(***************************************************************************)
(* user_memories: saveMemory                                               *)
(***************************************************************************)
\* `memoryType === "fact" && memoryKey`: undefined and "" are both falsy
IsFactUpsert(memoryKey, memoryType) ==
    memoryType = "fact" /\ memoryKey # Undefined /\ memoryKey # ""

\* memoryType: MemoryType = "chat"
DefaultType(memoryType) == IF memoryType = Undefined THEN "chat" ELSE memoryType

ConflictIdxMutAnyUser(table, userId, memoryKey) ==
    {i \in 1..Len(table) : table[i].memory_key = memoryKey}

ConflictIdx(table, userId, memoryKey) ==
    {i \in 1..Len(table) : table[i].user_id = userId /\ table[i].memory_key = memoryKey}

\* INSERT ... ON CONFLICT (user_id, memory_key) DO UPDATE SET content, embedding,
\* updated_at.  The sequence value is drawn before the conflict is detected.
UpsertFactMutAppend(table, id, userId, role, content, embedding, memoryKey) ==
    Append(table, [id |-> id, user_id |-> userId, role |-> role, content |-> content,
                   embedding |-> embedding, memory_key |-> memoryKey,
                   memory_type |-> "fact", updated_at |-> id])

UpsertFactMutAsChat(table, id, userId, role, content, embedding, memoryKey) ==
    LET hit == ConflictIdx(table, userId, memoryKey) IN
    IF hit = {}
    THEN Append(table, [id |-> id, user_id |-> userId, role |-> role, content |-> content,
                        embedding |-> embedding, memory_key |-> memoryKey,
                        memory_type |-> "chat", updated_at |-> id])
    ELSE [i \in 1..Len(table) |->
            IF i \in hit
            THEN [table[i] EXCEPT !.content = content, !.embedding = embedding,
                                  !.updated_at = id]
            ELSE table[i]]

UpsertFactMutKeepEmbedding(table, id, userId, role, content, embedding, memoryKey) ==
    LET hit == ConflictIdx(table, userId, memoryKey) IN
    IF hit = {}
    THEN Append(table, [id |-> id, user_id |-> userId, role |-> role, content |-> content,
                        embedding |-> embedding, memory_key |-> memoryKey,
                        memory_type |-> "fact", updated_at |-> id])
    ELSE [i \in 1..Len(table) |->
            IF i \in hit
            THEN [table[i] EXCEPT !.content = content, !.updated_at = id]
            ELSE table[i]]

UpsertFact(table, id, userId, role, content, embedding, memoryKey) ==
    LET hit == ConflictIdx(table, userId, memoryKey) IN
    IF hit = {}
    THEN Append(table, [id |-> id, user_id |-> userId, role |-> role, content |-> content,
                        embedding |-> embedding, memory_key |-> memoryKey,
                        memory_type |-> "fact", updated_at |-> id])
    ELSE [i \in 1..Len(table) |->
            IF i \in hit
            THEN [table[i] EXCEPT !.content = content, !.embedding = embedding,
                                  !.updated_at = id]
            ELSE table[i]]

\* INSERT ... VALUES ($1, $2, $3, $4, NULL, 'chat')
InsertChatMutKeepKey(table, id, userId, role, content, embedding, memoryKey) ==
    Append(table, [id |-> id, user_id |-> userId, role |-> role, content |-> content,
                   embedding |-> embedding,
                   memory_key |-> IF memoryKey \in {Undefined, ""} THEN NULL ELSE memoryKey,
                   memory_type |-> "chat", updated_at |-> id])

InsertChatMutNoRow(table, id, userId, role, content, embedding, memoryKey) == table

InsertChat(table, id, userId, role, content, embedding, memoryKey) ==
    Append(table, [id |-> id, user_id |-> userId, role |-> role, content |-> content,
                   embedding |-> embedding, memory_key |-> NULL,
                   memory_type |-> "chat", updated_at |-> id])

\* saveMemory(userId, role, content, memoryKey, memoryType) on table `table`
\* with the sequence at `id`: the embedding is obtained first, then one statement.
saveMemory(table, id, userId, role, content, memoryKey, memoryType, portOk) ==
    LET e == embedText(content, portOk)
        t == DefaultType(memoryType) IN
    IF e.threw
    THEN [threw |-> TRUE, rows |-> table, nextId |-> id, path |-> "none",
          embedCalled |-> e.called]
    ELSE IF IsFactUpsert(memoryKey, t)
         THEN [threw |-> FALSE,
               rows |-> UpsertFact(table, id, userId, role, content, e.embedding, memoryKey),
               nextId |-> id + 1, path |-> "fact", embedCalled |-> TRUE]
         ELSE [threw |-> FALSE,
               rows |-> InsertChat(table, id, userId, role, content, e.embedding, memoryKey),
               nextId |-> id + 1, path |-> "chat", embedCalled |-> TRUE]


\* ---- direct calls on the repository ----
MaxCalls == 2

Users == {"u1", "u2"}
Roles == {"user", "assistant"}
Contents == {<<" ">>, <<"a">>, <<"b", " ">>}
MemoryKeys == {Undefined, "", "name", "preference"}
MemoryTypes == {Undefined, "fact", "chat"}
FactKeys == MemoryKeys \ {Undefined, ""}

NoFact == <<"<none>">>
NoCall == [userId |-> "", role |-> "", content |-> <<>>, memoryKey |-> Undefined,
           memoryType |-> Undefined, threw |-> FALSE, path |-> "none",
           replaced |-> NoFact]

\* content of the row the upsert is about to overwrite, if any
Replaced(table, userId, memoryKey, memoryType) ==
    LET hit == ConflictIdx(table, userId, memoryKey) IN
    IF IsFactUpsert(memoryKey, DefaultType(memoryType)) /\ hit # {}
    THEN table[CHOOSE i \in hit : TRUE].content
    ELSE NoFact

StoreInit ==
    /\ rows = <<>>
    /\ nextId = 1
    /\ nCalls = 0
    /\ lastCall = NoCall
    /\ latestFact = [p \in Users \X FactKeys |-> NoFact]
    /\ chatSaves = 0

\* one call of PostgresMemoryRepository.saveMemory with any arguments
SaveMemoryCall ==
    /\ nCalls < MaxCalls
    /\ \E u \in Users, r \in Roles, c \in Contents, k \in MemoryKeys,
          t \in MemoryTypes, portOk \in BOOLEAN :
          LET res == saveMemory(rows, nextId, u, r, c, k, t, portOk) IN
          /\ rows' = res.rows
          /\ nextId' = res.nextId
          /\ nCalls' = nCalls + 1
          /\ lastCall' = [userId |-> u, role |-> r, content |-> c, memoryKey |-> k,
                          memoryType |-> t, threw |-> res.threw, path |-> res.path,
                          replaced |-> IF res.threw THEN NoFact
                                       ELSE Replaced(rows, u, k, t)]
          /\ latestFact' = IF res.path = "fact"
                           THEN [latestFact EXCEPT ![<<u, k>>] = c]
                           ELSE latestFact
          /\ chatSaves' = IF res.path = "chat" THEN chatSaves + 1 ELSE chatSaves
    /\ UNCHANGED <<ragVars, retryVars, chatVars, extraVars>>


(***************************************************************************)
(* RAG retrieval engine: getRagContextForQuery                             *)
(***************************************************************************)
MaxChunks == 3
MaxDist == 3

\* `embedding <-> $1::vector` is SQL NULL for a chunk stored without embedding;
\* the value stands for a distance that is not a number
NullDist == -1
Distances == (0..MaxDist) \cup {NullDist}
ChunkIds == 1..MaxChunks
Thresholds == 0..MaxDist
TopKs == 1..MaxChunks

\* ORDER BY distance ASC puts NULL last; equal distances come in any order
DistLeq(a, b) ==
    IF b = NullDist THEN TRUE
    ELSE IF a = NullDist THEN FALSE
    ELSE a <= b

IsSortedByDistance(seq) ==
    \A i \in 1..Len(seq), j \in 1..Len(seq) : i < j => DistLeq(seq[i].distance, seq[j].distance)

MinOf(a, b) == IF a < b THEN a ELSE b

\* ragRepository.queryChunksByEmbedding: the sequences SELECT ... ORDER BY distance
\* ASC LIMIT topK may return over table `table`, whose rows carry their distance
\* to the query vector
queryChunksByEmbedding(table, topK) ==
    LET n == MinOf(topK, Cardinality(table)) IN
    {seq \in [1..n -> table] :
        /\ \A i \in 1..n, j \in 1..n : i # j => seq[i] # seq[j]
        /\ IsSortedByDistance(seq)
        /\ \A c \in table : (\A i \in 1..n : seq[i] # c) =>
                \A i \in 1..n : DistLeq(seq[i].distance, c.distance)}

\* Array.prototype.filter with the predicate of getRagContextForQuery
RECURSIVE FilterByThreshold(_, _)
FilterByThreshold(rawChunks, distanceThreshold) ==
    IF rawChunks = <<>> THEN <<>>
    ELSE LET c == Head(rawChunks)
             rest == FilterByThreshold(Tail(rawChunks), distanceThreshold) IN
         IF c.distance # NullDist /\ c.distance <= distanceThreshold
         THEN <<c>> \o rest ELSE rest

getRagContextForQueryMutNoFallback(rawChunks, topK, distanceThreshold) ==
    LET filteredChunks == FilterByThreshold(rawChunks, distanceThreshold) IN
    [rawChunks |-> rawChunks, filteredChunks |-> filteredChunks,
     finalChunks |-> filteredChunks,
     meta |-> [topK |-> topK, distanceThreshold |-> distanceThreshold,
               chunksReturned |-> Len(filteredChunks)]]

getRagContextForQuery(rawChunks, topK, distanceThreshold) ==
    LET filteredChunks == FilterByThreshold(rawChunks, distanceThreshold)
        finalChunks == IF Len(filteredChunks) > 0 THEN filteredChunks ELSE rawChunks IN
    [rawChunks |-> rawChunks, filteredChunks |-> filteredChunks,
     finalChunks |-> finalChunks,
     meta |-> [topK |-> topK, distanceThreshold |-> distanceThreshold,
               chunksReturned |-> Len(finalChunks)]]

ChunkRows == [id : ChunkIds, distance : Distances]
ChunkTables == {t \in SUBSET ChunkRows : \A a \in t, b \in t : a.id = b.id => a = b}

NoRag == [rawChunks |-> <<>>, filteredChunks |-> <<>>, finalChunks |-> <<>>,
          meta |-> [topK |-> 0, distanceThreshold |-> 0, chunksReturned |-> 0]]

RagInputs == [table : ChunkTables, topK : TopKs, distanceThreshold : Thresholds,
              asked : {FALSE}]

RagInit ==
    /\ ragIn \in RagInputs
    /\ ragOut = NoRag

\* one call of getRagContextForQuery on the current chunk table
RagQuery ==
    /\ ~ragIn.asked
    /\ \E raw \in queryChunksByEmbedding(ragIn.table, ragIn.topK) :
          ragOut' = getRagContextForQuery(raw, ragIn.topK, ragIn.distanceThreshold)
    /\ ragIn' = [ragIn EXCEPT !.asked = TRUE]
    /\ UNCHANGED <<storeVars, retryVars, chatVars, extraVars>>


(***************************************************************************)
(* Retry wrapper: isRetryableError, withRetry                              *)
(***************************************************************************)
\* a JavaScript value of an error's status field: its typeof and its number
Num(n) == [t |-> "number", n |-> n]
Str(n) == [t |-> "string", n |-> n]
Undef == [t |-> "undefined", n |-> 0]

ErrorShape(code, causeCode, statusCode, status, responseStatus) ==
    [code |-> code, causeCode |-> causeCode, statusCode |-> statusCode,
     status |-> status, responseStatus |-> responseStatus]

\* the errors the wrapped operation may raise
Errors == {
    ErrorShape("ECONNRESET", Undefined, Undef, Undef, Undef),
    ErrorShape("ETIMEDOUT", Undefined, Undef, Undef, Undef),
    ErrorShape(Undefined, "ECONNRESET", Undef, Undef, Undef),
    ErrorShape("EPIPE", "ECONNRESET", Undef, Undef, Undef),
    ErrorShape("ENOTFOUND", Undefined, Undef, Undef, Undef),
    ErrorShape(Undefined, Undefined, Num(429), Undef, Undef),
    ErrorShape(Undefined, Undefined, Undef, Num(500), Undef),
    ErrorShape(Undefined, Undefined, Undef, Undef, Num(502)),
    ErrorShape(Undefined, Undefined, Num(503), Undef, Undef),
    ErrorShape(Undefined, Undefined, Num(400), Num(500), Undef),
    ErrorShape(Undefined, Undefined, Undef, Str(500), Undef),
    ErrorShape(Undefined, Undefined, Num(401), Undef, Undef),
    ErrorShape(Undefined, Undefined, Undef, Undef, Undef) }

retryableCodes == {"ECONNRESET", "ETIMEDOUT"}
retryableStatuses == {429, 500, 502, 503}

\* a ?? b
Coalesce(a, b) == IF a # Undefined THEN a ELSE b
CoalesceStatus(a, b) == IF a.t # "undefined" THEN a ELSE b

isRetryableErrorMutAlways(e) == TRUE

isRetryableError(e) ==
    LET code == Coalesce(e.code, e.causeCode)
        status == CoalesceStatus(e.statusCode, CoalesceStatus(e.status, e.responseStatus)) IN
    IF code # Undefined /\ code # "" /\ code \in retryableCodes THEN TRUE
    ELSE IF status.t = "number" /\ status.n \in retryableStatuses THEN TRUE
    ELSE FALSE

\* const backoffDelays = [0, 200, 500]
backoffDelays == <<0, 200, 500>>

\* backoffDelays[attempt - 1] ?? 0, the array being 0-based in the source
DelayForMutOffByOne(attempt) ==
    IF attempt - 1 \in DOMAIN backoffDelays THEN backoffDelays[attempt - 1] ELSE 0

DelayFor(attempt) ==
    IF attempt \in DOMAIN backoffDelays THEN backoffDelays[attempt] ELSE 0

Results == {"r1", "r2"}
NoError == ErrorShape("<no error>", Undefined, Undef, Undef, Undef)

OkOutcome == [ok |-> TRUE, err |-> NoError]
Failed(e) == [ok |-> FALSE, err |-> e]

\* rt.outcomes: what each invocation of fn did ("ok" or the error it raised);
\* rt.delays: the arguments of the delay() calls; rt.retries: the attempt
\* numbers logged as LLM_RETRY
RetryIdle == [pc |-> "idle", attempt |-> 0, outcomes |-> <<>>, delays |-> <<>>,
              retries |-> <<>>, lastError |-> NoError, result |-> Undefined,
              thrown |-> NoError, fnValue |-> Undefined]

RetryInit == rt = RetryIdle

\* `return await fn()` hands on the value fn resolved with
Returns(value) == value

\* `throw e` in the catch block raises the caught error itself
ThrowsMutGeneric(e) == NoError

Throws(e) == e

\* withRetry(fn, operation) is called: the loop starts at attempt 1, which is
\* not preceded by a delay
WithRetryStart ==
    /\ rt.pc \in {"idle", "returned", "threw"}
    /\ rt' = [RetryIdle EXCEPT !.pc = "call", !.attempt = 1]
    /\ UNCHANGED <<storeVars, ragVars, chatVars, extraVars>>

\* if (attempt > 1) await delay(backoffDelays[attempt - 1] ?? 0)
WithRetryDelay ==
    /\ rt.pc = "delay"
    /\ rt' = [rt EXCEPT !.pc = "call",
                        !.delays = Append(@, DelayFor(rt.attempt))]
    /\ UNCHANGED <<storeVars, ragVars, chatVars, extraVars>>

\* return await fn(): the operation succeeds
WithRetryAttemptOk ==
    /\ rt.pc = "call"
    /\ \E r \in Results :
          rt' = [rt EXCEPT !.pc = "returned", !.fnValue = r, !.result = Returns(r),
                           !.outcomes = Append(@, OkOutcome)]
    /\ UNCHANGED <<storeVars, ragVars, chatVars, extraVars>>

\* the catch block after fn() raised e
AfterFailure(r, e) ==
    IF ~isRetryableError(e) \/ r.attempt = Len(backoffDelays)
    THEN [r EXCEPT !.pc = "threw", !.lastError = e, !.thrown = Throws(e),
                   !.outcomes = Append(@, Failed(e))]
    ELSE [r EXCEPT !.pc = "delay", !.lastError = e, !.attempt = @ + 1,
                   !.retries = Append(@, r.attempt), !.outcomes = Append(@, Failed(e))]

\* return await fn(): the operation raises e
WithRetryAttemptFails ==
    /\ rt.pc = "call"
    /\ \E e \in Errors : rt' = AfterFailure(rt, e)
    /\ UNCHANGED <<storeVars, ragVars, chatVars, extraVars>>


(***************************************************************************)
(* Character-level helpers for the regular expressions of the classifier   *)
(* and of handleChat                                                       *)
(***************************************************************************)
LowerLetters == {"a", "b", "c", "d", "e", "f", "g", "h", "i", "j", "k", "l", "m", "n", "o", "p", "q", "r", "s", "t", "u", "v", "w", "x", "y", "z"}
UpperLetters == {"A", "B", "C", "D", "E", "F", "G", "H", "I", "J", "K", "L", "M", "N", "O", "P", "Q", "R", "S", "T", "U", "V", "W", "X", "Y", "Z"}
Digits == {"0", "1", "2", "3", "4", "5", "6", "7", "8", "9"}
Letters == LowerLetters \cup UpperLetters

\* String.prototype.toLowerCase, character by character
ToLowerChar(c) ==
    CASE c = "A" -> "a"
      [] c = "B" -> "b"
      [] c = "C" -> "c"
      [] c = "D" -> "d"
      [] c = "E" -> "e"
      [] c = "F" -> "f"
      [] c = "G" -> "g"
      [] c = "H" -> "h"
      [] c = "I" -> "i"
      [] c = "J" -> "j"
      [] c = "K" -> "k"
      [] c = "L" -> "l"
      [] c = "M" -> "m"
      [] c = "N" -> "n"
      [] c = "O" -> "o"
      [] c = "P" -> "p"
      [] c = "Q" -> "q"
      [] c = "R" -> "r"
      [] c = "S" -> "s"
      [] c = "T" -> "t"
      [] c = "U" -> "u"
      [] c = "V" -> "v"
      [] c = "W" -> "w"
      [] c = "X" -> "x"
      [] c = "Y" -> "y"
      [] c = "Z" -> "z"
      [] OTHER -> c

toLowerCase(s) == [i \in 1..Len(s) |-> ToLowerChar(s[i])]

\* \w
IsWordChar(c) == c \in Letters \cup Digits \cup {"_"}

\* the literal `lit` (lower case) matches s at position i, ignoring case
MatchesAt(s, i, lit) ==
    /\ i >= 1
    /\ i + Len(lit) - 1 <= Len(s)
    /\ \A k \in 1..Len(lit) : ToLowerChar(s[i + k - 1]) = lit[k]

\* s contains the literal, ignoring case
ContainsLit(s, lit) == \E i \in 1..Len(s) : MatchesAt(s, i, lit)

\* index of the first character at or after i that is not whitespace (Len(s)+1 if none)
RECURSIVE SkipWs(_, _)
SkipWs(s, i) == IF i > Len(s) THEN i ELSE IF s[i] \in WS THEN SkipWs(s, i + 1) ELSE i

\* index of the last character of the line that starts at i ("." does not match a newline)
RECURSIVE LineEnd(_, _)
LineEnd(s, i) ==
    IF i > Len(s) \/ s[i] = "\n" THEN i - 1 ELSE LineEnd(s, i + 1)

\* replace(/[.!?,]+$/, "")
StripTrailingPunctMutKeep(s) == s

RECURSIVE StripTrailingPunct(_)
StripTrailingPunct(s) ==
    IF s = <<>> THEN s
    ELSE IF s[Len(s)] \in {".", "!", "?", ","}
         THEN StripTrailingPunct(SubSeq(s, 1, Len(s) - 1)) ELSE s


LitMyNameIs == <<"m", "y", " ", "n", "a", "m", "e", " ", "i", "s">>
LitI == <<"i">>
LitNow == <<"n", "o", "w">>
LitLike == <<"l", "i", "k", "e">>
LitWhatDoILike == <<"w", "h", "a", "t", " ", "d", "o", " ", "i", " ", "l", "i", "k", "e">>
LitWhatDoILikeQ == <<"w", "h", "a", "t", " ", "d", "o", " ", "i", " ", "l", "i", "k", "e", "?">>
LitDoI == <<"d", "o", " ", "i", " ">>
LitAmI == <<"a", "m", " ", "i">>

\* POLICY_REGEX alternatives
PolicyWords == {
    <<"p", "o", "l", "i", "c", "y">>,
    <<"c", "o", "m", "p", "a", "n", "y">>,
    <<"w", "o", "r", "k">>,
    <<"a", "c", "c", "e", "p", "t", "a", "b", "l", "e">>,
    <<"a", "l", "l", "o", "w", "e", "d">>,
    <<"f", "o", "r", "b", "i", "d", "d", "e", "n">>,
    <<"b", "r", "e", "a", "k">>,
    <<"r", "u", "l", "e">>,
    <<"r", "e", "g", "u", "l", "a", "t", "i", "o", "n">> }

\* PERSONAL_QUESTION_REGEX verbs after "do i "
PersonalVerbs == {
    <<"o", "w", "n">>,
    <<"h", "a", "v", "e">>,
    <<"l", "i", "k", "e">>,
    <<"p", "r", "e", "f", "e", "r">>,
    <<"r", "e", "m", "e", "m", "b", "e", "r">>,
    <<"k", "n", "o", "w">> }

\* MEANINGFUL_TOKENS
MEANINGFUL_TOKENS == {
    <<"w", "h", "a", "t">>,
    <<"w", "h", "y">>,
    <<"h", "o", "w">>,
    <<"w", "h", "e", "n">>,
    <<"w", "h", "e", "r", "e">>,
    <<"w", "h", "o">>,
    <<"c", "a", "n">>,
    <<"s", "h", "o", "u", "l", "d">>,
    <<"c", "o", "u", "l", "d">>,
    <<"w", "o", "u", "l", "d">>,
    <<"i", "s">>,
    <<"a", "r", "e">>,
    <<"d", "o">>,
    <<"d", "o", "e", "s">>,
    <<"d", "i", "d">>,
    <<"m", "a", "y">>,
    <<"m", "i", "g", "h", "t">>,
    <<"p", "o", "l", "i", "c", "y">>,
    <<"o", "f", "f", "i", "c", "e">>,
    <<"c", "o", "f", "f", "e", "e">>,
    <<"t", "e", "a">>,
    <<"b", "r", "e", "a", "k">>,
    <<"n", "a", "m", "e">>,
    <<"o", "w", "n">>,
    <<"h", "a", "v", "e">>,
    <<"l", "i", "k", "e">>,
    <<"p", "r", "e", "f", "e", "r">>,
    <<"w", "o", "r", "k">> }

\* the questions a request may carry
QEmpty == <<>>
QBlank == <<" ", " ">>
QGarbage == <<"x", "k", "2", "9", "2", "?", "?">>
QShort == <<"h", "i">>
QNameAl == <<"M", "y", " ", "n", "a", "m", "e", " ", "i", "s", " ", "A", "l">>
QNameDot == <<"m", "y", " ", "n", "a", "m", "e", " ", "i", "s", " ", "B", "o", ".">>
QNameNone == <<"M", "y", " ", "n", "a", "m", "e", " ", "i", "s", " ", "?">>
QLikeTea == <<"I", " ", "l", "i", "k", "e", " ", "t", "e", "a">>
QNowLike == <<"I", " ", "n", "o", "w", " ", "l", "i", "k", "e", " ", "t", "e", "a", "!">>
QRecall == <<"W", "h", "a", "t", " ", "d", "o", " ", "I", " ", "l", "i", "k", "e", "?">>
QPolicy == <<"I", "s", " ", "a", " ", "n", "a", "p", " ", "a", "l", "l", "o", "w", "e", "d", "?">>
QPersonal == <<"D", "o", " ", "I", " ", "o", "w", "n", " ", "a", " ", "c", "a", "r">>
QHello == <<"h", "e", "l", "l", "o", " ", "t", "h", "e", "r", "e">>
QILove == <<"I", " ", "l", "o", "v", "e", " ", "j", "a", "z", "z">>
\* matches the like pattern from its start and the name pattern further on
QLikeName == <<"I", " ", "l", "i", "k", "e", " ", "t", "h", "a", "t", " ", "m", "y", " ", "n", "a", "m", "e", " ", "i", "s", " ", "A", "l">>
\* a direct personal question that names a policy keyword
QPersonalBreak == <<"D", "o", " ", "I", " ", "h", "a", "v", "e", " ", "a", " ", "b", "r", "e", "a", "k">>
Questions == {QEmpty, QBlank, QGarbage, QShort, QNameAl, QNameDot, QNameNone, QLikeTea, QNowLike, QRecall, QPolicy, QPersonal, QHello, QILove, QLikeName, QPersonalBreak}

(***************************************************************************)
(* Intent and fact classifier (IntentClassifier)                           *)
(***************************************************************************)
\* split(/\s+/) of a trimmed text; empty pieces are dropped by filter(Boolean)
RECURSIVE SplitWs(_, _)
SplitWs(s, cur) ==
    IF s = <<>> THEN (IF cur = <<>> THEN <<>> ELSE <<cur>>)
    ELSE IF Head(s) \in WS
         THEN (IF cur = <<>> THEN SplitWs(Tail(s), <<>>)
               ELSE <<cur>> \o SplitWs(Tail(s), <<>>))
         ELSE SplitWs(Tail(s), Append(cur, Head(s)))

IsLowerLetter(c) == c \in LowerLetters
IsLetter(c) == c \in Letters
IsDigit(c) == c \in Digits
IsBangOrQuestion(c) == c \in {"?", "!"}

\* t.replace(/[^a-z]/g, "")
StripNonLower(t) == SelectSeq(t, IsLowerLetter)

isGarbageQuestionMutNever(text) == FALSE

isGarbageQuestionMutTwentyLetters(text) ==
    LET cleaned == trim(text)
        alphaMatches == SelectSeq(cleaned, IsLetter)
        hasDigit == SelectSeq(cleaned, IsDigit) # <<>>
        manyPunct == Len(SelectSeq(cleaned, IsBangOrQuestion)) >= 2
        pieces == SplitWs(toLowerCase(cleaned), <<>>)
        tokens == {StripNonLower(pieces[i]) : i \in 1..Len(pieces)} \ {<<>>}
    IN  \/ Len(cleaned) < 4
        \/ /\ tokens \cap MEANINGFUL_TOKENS = {}
           /\ (hasDigit \/ manyPunct)
           /\ Len(alphaMatches) <= 20

isGarbageQuestion(text) ==
    LET cleaned == trim(text)
        alphaMatches == SelectSeq(cleaned, IsLetter)
        hasDigit == SelectSeq(cleaned, IsDigit) # <<>>
        punctMatches == SelectSeq(cleaned, IsBangOrQuestion)
        manyPunct == Len(punctMatches) >= 2
        pieces == SplitWs(toLowerCase(cleaned), <<>>)
        tokens == {StripNonLower(pieces[i]) : i \in 1..Len(pieces)} \ {<<>>}
        meaningful == tokens \cap MEANINGFUL_TOKENS # {}
    IN  IF cleaned = <<>> THEN TRUE
        ELSE IF Len(cleaned) < 4 THEN TRUE
        ELSE IF ~meaningful /\ (hasDigit \/ manyPunct) /\ Len(alphaMatches) < 20 THEN TRUE
        ELSE FALSE

NoMatch == [matched |-> FALSE, capture |-> <<>>]

\* s.match(/\bmy name is\s+(.+)/i) on a trimmed text: the leftmost position
\* with a word boundary, the literal, whitespace and a non-empty rest of line
NameMatchAt(s, i) ==
    /\ (i = 1 \/ ~IsWordChar(s[i - 1]))
    /\ MatchesAt(s, i, LitMyNameIs)
    /\ i + Len(LitMyNameIs) <= Len(s)
    /\ s[i + Len(LitMyNameIs)] \in WS
    /\ SkipWs(s, i + Len(LitMyNameIs)) <= Len(s)

nameMatchMutNoMatch(s) == NoMatch

nameMatch(s) ==
    LET at == {i \in 1..Len(s) : NameMatchAt(s, i)} IN
    IF at = {} THEN NoMatch
    ELSE LET i == CHOOSE x \in at : \A y \in at : x <= y
             j == SkipWs(s, i + Len(LitMyNameIs))
         IN [matched |-> TRUE, capture |-> SubSeq(s, j, LineEnd(s, j))]

\* after a word at p: whitespace, then the index of the next non-blank (0 if none)
AfterWord(s, p, word) ==
    IF /\ MatchesAt(s, p, word)
       /\ p + Len(word) <= Len(s)
       /\ s[p + Len(word)] \in WS
       /\ SkipWs(s, p + Len(word)) <= Len(s)
    THEN SkipWs(s, p + Len(word)) ELSE 0

\* s.match(/^i\s+(now\s+)?like\s+(.+)/i) on a trimmed text; capture is group 2
likeMatch(s) ==
    LET p == AfterWord(s, 1, LitI)
        pNow == IF p = 0 THEN 0 ELSE AfterWord(s, p, LitNow)
        viaNow == IF pNow = 0 THEN 0 ELSE AfterWord(s, pNow, LitLike)
        direct == IF p = 0 THEN 0 ELSE AfterWord(s, p, LitLike)
        j == IF viaNow # 0 THEN viaNow ELSE direct
    IN  IF j = 0 THEN NoMatch
        ELSE [matched |-> TRUE, capture |-> SubSeq(s, j, LineEnd(s, j))]

\* normalizedQuestion === "what do i like" || normalizedQuestion === "what do i like?"
IsCannedRecall(normalizedQuestion) ==
    normalizedQuestion = LitWhatDoILike \/ normalizedQuestion = LitWhatDoILikeQ

\* POLICY_REGEX.test(question)
POLICY_REGEX(question) == \E w \in PolicyWords : ContainsLit(question, w)

\* PERSONAL_QUESTION_REGEX.test(trimmedQuestion)
PERSONAL_QUESTION_REGEX(s) ==
    \/ /\ MatchesAt(s, 1, LitDoI)
       /\ \E v \in PersonalVerbs : MatchesAt(s, 1 + Len(LitDoI), v)
    \/ /\ MatchesAt(s, 1, LitAmI)
       /\ (Len(s) = Len(LitAmI) \/ ~IsWordChar(s[Len(LitAmI) + 1]))

\* ---- the completion port's reply to the extraction prompt ----
\* A reply is leading text, a JSON body and trailing text:
\*   pre  : "none", "prose" (text without "{") or "brace" (text with a "{")
\*   body : [kind |-> "none"], [kind |-> "null"] or an object with optional fields
\*   post : whether text follows the body
JsonNone == [kind |-> "none", key |-> Undefined, value |-> <<>>, intent |-> Undefined]
JsonNull == [kind |-> "null", key |-> Undefined, value |-> <<>>, intent |-> Undefined]
\* a JSON text that is not an object: a string, a number, true, an array
JsonScalar == [kind |-> "scalar", key |-> Undefined, value |-> <<>>, intent |-> Undefined]
JsonObject(key, value, intent) ==
    [kind |-> "object", key |-> key, value |-> value, intent |-> intent]
Reply(pre, body, post) == [pre |-> pre, body |-> body, post |-> post]

\* JSON.parse(response.slice(response.indexOf("{"))): the parsed body, or
\* "error" when JSON.parse throws
ParseReply(r) ==
    IF r.pre = "brace" THEN "error"
    ELSE IF r.body.kind = "object" THEN (IF r.post THEN "error" ELSE "object")
    ELSE IF r.body.kind = "null" /\ r.pre = "none" /\ ~r.post THEN "null"
    ELSE IF r.body.kind = "scalar" /\ r.pre = "none" /\ ~r.post THEN "scalar"
    ELSE "error"

\* String(fact.key).toLowerCase() on the keys the replies use
LowerKey(key) ==
    CASE key = "Name" -> "name"
      [] key = "Food" -> "food"
      [] OTHER -> key

NoFactCandidate == [isNull |-> TRUE, key |-> "", value |-> <<>>, intent |-> "",
                    threw |-> FALSE]

\* what leaves extractDynamicKeyFact when the parse error is not handled
FactParseError == [isNull |-> TRUE, key |-> "", value |-> <<>>, intent |-> "",
                   threw |-> TRUE]

\* the body of the try block: JSON.parse throws on "error"; the if returns the
\* candidate, or control falls out of the block
TryExtract(r) ==
    IF ParseReply(r) = "error" THEN FactParseError
    ELSE IF ParseReply(r) = "object" /\ r.body.key \notin {Undefined, ""}
            /\ r.body.intent \notin {Undefined, "<number>"}
    THEN [isNull |-> FALSE, key |-> LowerKey(r.body.key), value |-> r.body.value,
          intent |-> r.body.intent, threw |-> FALSE]
    ELSE NoFactCandidate

extractDynamicKeyFactMutNoCatch(r) == TryExtract(r)

\* extractDynamicKeyFact after the completion call returned reply r.
\* A numeric intent is written "<number>"; a missing one is Undefined.
extractDynamicKeyFact(r) ==
    LET t == TryExtract(r) IN
    IF t.threw THEN NoFactCandidate ELSE t

detectHighLevelIntentMutPolicyFirst(keyFact, hasPolicyKeyword, isDirectPersonalQuestion) ==
    IF ~keyFact.isNull /\ keyFact.intent = "asking"
    THEN (IF hasPolicyKeyword THEN "MERGED_MEMORY_POLICY_QUERY" ELSE "PURE_MEMORY_QUERY")
    ELSE IF hasPolicyKeyword THEN "PURE_POLICY_QUERY"
    ELSE IF keyFact.isNull /\ isDirectPersonalQuestion THEN "PURE_MEMORY_QUERY"
    ELSE "UNKNOWN"

detectHighLevelIntent(keyFact, hasPolicyKeyword, isDirectPersonalQuestion) ==
    IF ~keyFact.isNull /\ keyFact.intent = "asking"
    THEN (IF hasPolicyKeyword THEN "MERGED_MEMORY_POLICY_QUERY" ELSE "PURE_MEMORY_QUERY")
    ELSE IF keyFact.isNull /\ isDirectPersonalQuestion THEN "PURE_MEMORY_QUERY"
    ELSE IF hasPolicyKeyword THEN "PURE_POLICY_QUERY"
    ELSE "UNKNOWN"

IDENTITY_KEYS == {"name", "full_name", "nickname", "preferred_name"}
isIdentityKeyMutAll(key) == TRUE

isIdentityKey(key) == key \in IDENTITY_KEYS

(***************************************************************************)
(* Chat orchestrator (handleChat and its pipelines)                        *)
(*                                                                         *)
(* Answers and completion replies are sequences of text pieces.  A piece   *)
(* is a literal of the source, a stored content, or a word of a reply; the *)
(* phrase "I don't know" occurs in a text only as one of IdkPieces and     *)
(* " from the document" only as FtdPiece, so the two regular expressions   *)
(* applied to replies are decided piece by piece.                          *)
(***************************************************************************)
\* config.rag.topK, config.rag.distanceThreshold (1.2, in tenths) and
\* config.memory.similarTopK
RagTopK == 5
RagDistanceThreshold == 12
SimilarTopK == 5

MaxChatChunks == 1

ChatUsers == {"u1", "u2"}
ChatChunkIds == 1..MaxChatChunks
ChatDistances == {RagDistanceThreshold, RagDistanceThreshold + 1}
ChatChunkRows == [id : ChatChunkIds, distance : ChatDistances]

UserTurn(content) == [role |-> "user", content |-> content]
AssistantTurn(content) == [role |-> "assistant", content |-> content]
Histories == {<<>>, <<UserTurn(QHello), AssistantTurn(<<"Hi.">>)>>}

\* ---- literals of the source ----
AnsQuestionRequired == <<"question required">>
AnsGarbage ==
    <<"It looks like your message might be incomplete or unclear. Could you please rephrase your question?">>
AnsNoPreferences == <<"I don't have any stored preferences yet.">>
AnsNoMemory == <<"I don't have any stored memory about that yet.">>
AnsMergedNoChunks ==
    <<"Based on the available company policy, there is no explicit rule about that behavior. However, employees are expected to follow standard working hours, break rules, and maintain professionalism.">>
AnsMergedFallback ==
    <<"Based on the company policy, there is no explicit rule about coffee or break habits, but employees are expected to follow standard working hours, agreed break times, and maintain professionalism. Frequent breaks should be discussed with your manager.">>
AnsPolicyNoChunks ==
    <<"Based on the policy information I have, there is no explicit rule about that. You may need to confirm with HR or your manager.">>
AnsPolicyFallback ==
    <<"The company policy does not explicitly mention that scenario, but employees are expected to follow standard working hours, break rules, and maintain professionalism.">>
AnsUnknownClarify ==
    <<"It seems like your question isn't clear. Could you rephrase or provide more detail?">>
AnsUnknownNotSure == <<"I'm not sure I understood that. Could you clarify?">>

Greeting(name) == <<"Hello, ">> \o name \o <<"! How can I assist you today?">>
LikeAck(pref) == <<"Got it! I'll remember that you like ">> \o pref \o <<".">>

\* question.replace(/^I\s+/i, "")
StripLeadingI(question) ==
    IF MatchesAt(question, 1, LitI) /\ Len(question) >= 2 /\ question[2] \in WS
    THEN SubSeq(question, SkipWs(question, 2), Len(question))
    ELSE question

FactAck(question) ==
    <<"Got it! I'll remember that you ">> \o StripLeadingI(question) \o <<".">>

\* contents.join(" and ")
RECURSIVE JoinAnd(_)
JoinAnd(contents) ==
    IF contents = <<>> THEN <<>>
    ELSE IF Len(contents) = 1 THEN contents[1]
    ELSE contents[1] \o <<" and ">> \o JoinAnd(Tail(contents))

\* ---- completion replies to an answer prompt ----
IdkPieces == {"I don't know", "i don't know"}
FtdPiece == " from the document"
\* pieces that begin with a word character (no \b between "know" and them)
WordStartPieces == IdkPieces \cup {"ingly break rules.", "Breaks are allowed.",
                                   "Sorry, ", "The policy is silent. "}

AnswerReplies == {
    <<>>,
    <<" ">>,
    <<"Breaks are allowed.">>,
    <<"I don't know", FtdPiece, ".">>,
    <<" ", "The policy is silent. ", "i don't know", FtdPiece, ".">>,
    <<"i don't know", ".", " ">>,
    <<"I don't know", "ingly break rules.">>,
    <<"Sorry, ", "I don't know", ".">> }

\* /i don't know from the document/i.test(cleaned)
SaysDontKnowFromTheDocument(cleaned) ==
    \E i \in 1..Len(cleaned) :
        cleaned[i] \in IdkPieces /\ i < Len(cleaned) /\ cleaned[i + 1] = FtdPiece

\* /^i don't know\b/i.test(cleaned)
StartsWithDontKnow(cleaned) ==
    /\ cleaned # <<>>
    /\ cleaned[1] \in IdkPieces
    /\ (Len(cleaned) = 1 \/ cleaned[2] \notin WordStartPieces)

\* the test that replaces a reply by the fixed fallback sentence
NeedsFallbackMutExactOnly(cleaned) ==
    cleaned = <<>> \/ SaysDontKnowFromTheDocument(cleaned)

NeedsFallback(cleaned) ==
    \/ cleaned = <<>>
    \/ SaysDontKnowFromTheDocument(cleaned)
    \/ StartsWithDontKnow(cleaned)

\* ---- reads of the memory store ----
\* getLatestFactsByKey: the rows of the user with a key whose id is the
\* greatest among the rows with that user and key
LatestFactRowsMutNoNullFilter(table, userId) ==
    {i \in 1..Len(table) :
        /\ table[i].user_id = userId
        /\ \A j \in 1..Len(table) :
              (table[j].user_id = userId /\ table[j].memory_key = table[i].memory_key)
                  => table[j].id <= table[i].id}

LatestFactRows(table, userId) ==
    {i \in 1..Len(table) :
        /\ table[i].user_id = userId
        /\ table[i].memory_key # NULL
        /\ \A j \in 1..Len(table) :
              (table[j].user_id = userId /\ table[j].memory_key = table[i].memory_key)
                  => table[j].id <= table[i].id}

\* the orders in which a query without ORDER BY may return the rows `idx`
Orderings(idx) ==
    {seq \in [1..Cardinality(idx) -> idx] :
        \A a, b \in 1..Cardinality(idx) : a # b => seq[a] # seq[b]}

getLatestFactsByKey(table, userId) ==
    {[k \in 1..Len(seq) |->
        [memory_key |-> table[seq[k]].memory_key, content |-> table[seq[k]].content]] :
     seq \in Orderings(LatestFactRows(table, userId))}

\* retrieveMemory(userId, queryEmbedding, limit, role): contents of at most
\* `limit` rows of the user with that role.  Which rows and in which order is
\* decided by distance, age and type, which this description leaves open.
retrieveMemory(table, userId, limit, role) ==
    LET idx == {i \in 1..Len(table) :
                   table[i].user_id = userId /\ (role = "any" \/ table[i].role = role)}
        n == MinOf(limit, Cardinality(idx))
    IN {[k \in 1..n |-> table[seq[k]].content] :
        seq \in {s \in [1..n -> idx] : \A a, b \in 1..n : a # b => s[a] # s[b]}}

RECURSIVE ContentsOf(_)
ContentsOf(facts) ==
    IF facts = <<>> THEN <<>> ELSE <<Head(facts).content>> \o ContentsOf(Tail(facts))

IsNonEmptyText(t) == t # <<>>

RECURSIVE FactsWithKey(_, _)
FactsWithKey(facts, key) ==
    IF facts = <<>> THEN <<>>
    ELSE (IF Head(facts).memory_key = key THEN <<Head(facts)>> ELSE <<>>)
         \o FactsWithKey(Tail(facts), key)

RECURSIVE NonIdentityFacts(_)
NonIdentityFacts(facts) ==
    IF facts = <<>> THEN <<>>
    ELSE (IF isIdentityKey(Head(facts).memory_key) THEN <<>> ELSE <<Head(facts)>>)
         \o NonIdentityFacts(Tail(facts))

\* ---- response assembly ----
buildMetaMutZeroChunks(rag, factsCount) ==
    [rag |-> [topK |-> rag.topK, distanceThreshold |-> rag.distanceThreshold,
              chunksReturned |-> 0],
     memory |-> [similarTopK |-> SimilarTopK, factsCount |-> factsCount]]

buildMeta(rag, factsCount) ==
    [rag |-> [topK |-> rag.topK, distanceThreshold |-> rag.distanceThreshold,
              chunksReturned |-> rag.chunksReturned],
     memory |-> [similarTopK |-> SimilarTopK, factsCount |-> factsCount]]

ZeroRag == [topK |-> 0, distanceThreshold |-> 0, chunksReturned |-> 0]

NoResponse == [answer |-> <<>>, history |-> <<>>, contextUsed |-> <<>>,
               memoryUsed |-> FALSE, meta |-> buildMeta(ZeroRag, 0)]

\* ---- failures leaving handleChat, and the status the HTTP boundary answers ----
Thrown(source, statusCode) == [source |-> source, statusCode |-> statusCode]
NoThrown == Thrown("none", Undef)

\* what the ports raise once withRetry gave up: an error carrying a numeric
\* statusCode, and one carrying only a status
ChatPortErrors == {
    ErrorShape(Undefined, Undefined, Num(429), Undef, Undef),
    ErrorShape(Undefined, Undefined, Undef, Num(500), Undef) }

\* err.statusCode = typeof caught.statusCode === "number" ? caught.statusCode : 502
StatusCodeOr502(e) == IF e.statusCode.t = "number" THEN e.statusCode ELSE Num(502)

\* the catch blocks of callLLM and embedText
callLLMFailure(e) == Thrown("completion", StatusCodeOr502(e))
embedTextFailure(e) == Thrown("embedding", StatusCodeOr502(e))

\* throw new Error("Cannot embed empty text"): raised before the try block
EmptyTextError == Thrown("emptyText", Undef)

\* the error embedText rejects with: the port's, or the guard's when the port
\* was never called
EmbedFailures(called) ==
    IF called THEN {embedTextFailure(e) : e \in ChatPortErrors} ELSE {EmptyTextError}

\* chatController's catch: mutable.statusCode = mutable.statusCode || 500
chatControllerCatch(err) ==
    IF err.statusCode.t = "number" /\ err.statusCode.n # 0
    THEN err
    ELSE [err EXCEPT !.statusCode = Num(500)]

\* errorHandler: a plain Error is wrapped with its numeric statusCode, else 500
errorHandlerStatus(err) ==
    IF err.statusCode.t = "number" THEN err.statusCode.n ELSE 500

HttpStatusOf(err) == errorHandlerStatus(chatControllerCatch(err))

ReqIdle ==
    [pc |-> "idle", branch |-> "none", userId |-> "", question |-> <<>>,
     history |-> <<>>, hasPolicyKeyword |-> FALSE, isDirectPersonalQuestion |-> FALSE,
     keyFact |-> NoFactCandidate, factKey |-> "", factValue |-> <<>>,
     latestFacts |-> <<>>, intent |-> "none", probeChunks |-> 0,
     ragResult |-> NoRag, ragContext |-> <<>>, memoryText |-> <<>>,
     memorySentence |-> <<>>, matchedFacts |-> 0, llmContext |-> <<>>, raw |-> <<>>,
     answer |-> <<>>, contextUsed |-> <<>>, memoryUsed |-> FALSE,
     meta |-> buildMeta(ZeroRag, 0), trace |-> <<>>, response |-> NoResponse,
     error |-> NoThrown, httpStatus |-> 0]

ResponseOfMutDropHistory(r) ==
    [answer |-> r.answer,
     history |-> <<UserTurn(r.question), AssistantTurn(r.answer)>>,
     contextUsed |-> r.contextUsed, memoryUsed |-> r.memoryUsed, meta |-> r.meta]

\* the object a terminal branch returns
ResponseOf(r) ==
    [answer |-> r.answer,
     history |-> r.history \o <<UserTurn(r.question), AssistantTurn(r.answer)>>,
     contextUsed |-> r.contextUsed, memoryUsed |-> r.memoryUsed, meta |-> r.meta]

\* res.json(payload) answers 200
Returned(r) == [r EXCEPT !.pc = "done", !.response = ResponseOf(r), !.httpStatus = 200]
Threw(r, events, err) ==
    [r EXCEPT !.pc = "threw", !.trace = @ \o events, !.error = err,
              !.httpStatus = HttpStatusOf(err)]

\* ---- the completion port's replies to the extraction prompt ----
ClassifierReplies == {
    Reply("none", JsonNull, FALSE),
    Reply("prose", JsonNone, FALSE),
    Reply("brace", JsonObject("name", <<"A", "l">>, "introducing"), FALSE),
    Reply("none", JsonObject("name", <<"A", "l">>, "introducing"), TRUE),
    Reply("prose", JsonObject("Name", <<"A", "l">>, "introducing"), FALSE),
    Reply("none", JsonObject("name", <<"B", "o">>, "updating"), FALSE),
    Reply("none", JsonObject("name", <<>>, "introducing"), FALSE),
    Reply("none", JsonObject("name", <<>>, "asking"), FALSE),
    Reply("none", JsonObject("food", <<>>, "asking"), FALSE),
    Reply("none", JsonObject("Food", <<"j", "a", "z", "z">>, "introducing"), FALSE),
    Reply("none", JsonObject("food", <<"t", "e", "a">>, "updating"), FALSE),
    Reply("none", JsonObject("unknown", <<>>, "asking"), FALSE),
    Reply("none", JsonObject("name", <<>>, "neutral"), FALSE),
    Reply("none", JsonObject("name", <<"A", "l">>, "greeting"), FALSE),
    Reply("none", JsonObject("name", <<"A", "l">>, "<number>"), FALSE),
    Reply("none", JsonObject(Undefined, <<"A", "l">>, "introducing"), FALSE) }

\* keyFact = { key: "unknown", value: "", intent: "asking" }
SyntheticAsking == [isNull |-> FALSE, key |-> "unknown", value |-> <<>>, intent |-> "asking",
                    threw |-> FALSE]

\* ---- steps of handleChat; one action per awaited call ----
Event(r, events) == [r EXCEPT !.trace = @ \o events]

ToSaveFactMutSkipSave(r, branch, key, value, answer) ==
    [r EXCEPT !.pc = "saveChat", !.branch = branch, !.factKey = key,
              !.factValue = value, !.answer = answer, !.memoryUsed = TRUE,
              !.meta = buildMeta(ZeroRag, 1)]

\* a branch that persists a fact, then answers with a template
ToSaveFact(r, branch, key, value, answer) ==
    [r EXCEPT !.pc = "saveFact", !.branch = branch, !.factKey = key,
              !.factValue = value, !.answer = answer, !.memoryUsed = TRUE,
              !.meta = buildMeta(ZeroRag, 1)]

ReceiveMutLikeFirst(userId, question, history) ==
    LET r == [ReqIdle EXCEPT !.userId = userId, !.question = question,
                             !.history = history]
        trimmedQuestion == trim(question)
        normalizedQuestion == toLowerCase(trimmedQuestion)
        nm == nameMatch(trimmedQuestion)
        lm == likeMatch(trimmedQuestion)
    IN  IF trimmedQuestion = <<>>
        THEN Returned([r EXCEPT !.branch = "empty", !.answer = AnsQuestionRequired])
        ELSE IF isGarbageQuestion(trimmedQuestion)
        THEN Returned([r EXCEPT !.branch = "garbage", !.answer = AnsGarbage])
        ELSE IF lm.matched /\ lm.capture # <<>>
        THEN LET pref == StripTrailingPunct(trim(lm.capture)) IN
             ToSaveFact(r, "like", "preference", pref, LikeAck(pref))
        ELSE IF nm.matched /\ nm.capture # <<>>
        THEN LET name == StripTrailingPunct(trim(nm.capture)) IN
             ToSaveFact(r, "name", "name", name, Greeting(name))
        ELSE IF IsCannedRecall(normalizedQuestion)
        THEN [r EXCEPT !.pc = "recall", !.branch = "recall"]
        ELSE [r EXCEPT !.pc = "classify",
                       !.hasPolicyKeyword = POLICY_REGEX(question),
                       !.isDirectPersonalQuestion =
                            PERSONAL_QUESTION_REGEX(trimmedQuestion)]

\* entry of handleChat up to its first awaited call (or its return)
Receive(userId, question, history) ==
    LET r == [ReqIdle EXCEPT !.userId = userId, !.question = question,
                             !.history = history]
        trimmedQuestion == trim(question)
        normalizedQuestion == toLowerCase(trimmedQuestion)
        nm == nameMatch(trimmedQuestion)
        lm == likeMatch(trimmedQuestion)
    IN  IF trimmedQuestion = <<>>
        THEN Returned([r EXCEPT !.branch = "empty", !.answer = AnsQuestionRequired])
        ELSE IF isGarbageQuestion(trimmedQuestion)
        THEN Returned([r EXCEPT !.branch = "garbage", !.answer = AnsGarbage])
        ELSE IF nm.matched /\ nm.capture # <<>>
        THEN LET name == StripTrailingPunct(trim(nm.capture)) IN
             ToSaveFact(r, "name", "name", name, Greeting(name))
        ELSE IF lm.matched /\ lm.capture # <<>>
        THEN LET pref == StripTrailingPunct(trim(lm.capture)) IN
             ToSaveFact(r, "like", "preference", pref, LikeAck(pref))
        ELSE IF IsCannedRecall(normalizedQuestion)
        THEN [r EXCEPT !.pc = "recall", !.branch = "recall"]
        ELSE [r EXCEPT !.pc = "classify",
                       !.hasPolicyKeyword = POLICY_REGEX(question),
                       !.isDirectPersonalQuestion =
                            PERSONAL_QUESTION_REGEX(trimmedQuestion)]

ChatTables(ids) == {t \in SUBSET ChatChunkRows :
                       /\ {c.id : c \in t} = ids
                       /\ \A a \in t, b \in t : a.id = b.id => a = b}

\* a request arrives; the stored chunks' distances are those to its question
ChatReceive ==
    /\ req.pc = "idle"
    /\ \E u \in ChatUsers, q \in Questions, h \in Histories,
          t \in ChatTables({c.id : c \in chunks}) :
          /\ req' = Receive(u, q, h)
          /\ chunks' = t
    /\ UNCHANGED <<rows, nextId, nonChatVars>>

\* await saveMemory(userId, "user", value, key, "fact")
ChatSaveFact ==
    /\ req.pc = "saveFact"
    /\ \E portOk \in BOOLEAN :
          LET res == saveMemory(rows, nextId, req.userId, "user", req.factValue,
                                req.factKey, "fact", portOk)
              embed == IF res.embedCalled THEN <<"embed">> ELSE <<>>
          IN  IF res.threw
              THEN /\ \E err \in EmbedFailures(res.embedCalled) :
                         req' = Threw(req, embed, err)
                   /\ UNCHANGED <<rows, nextId>>
              ELSE /\ req' = Event([req EXCEPT !.pc = "saveChat"],
                                   embed \o <<"mem.saveFact">>)
                   /\ rows' = res.rows
                   /\ nextId' = res.nextId
    /\ UNCHANGED <<chunks, nonChatVars>>

\* "what do i like": await getLatestFactsByKey, then the canned recall answer
ChatRecall ==
    /\ req.pc = "recall"
    /\ \E latestFacts \in getLatestFactsByKey(rows, req.userId) :
          LET prefs == NonIdentityFacts(latestFacts) IN
          req' = Event(
                   IF prefs # <<>>
                   THEN [req EXCEPT !.pc = "saveChat", !.latestFacts = latestFacts,
                            !.answer = <<"Your preferences include ">>
                                       \o JoinAnd(ContentsOf(prefs)) \o <<".">>,
                            !.memoryUsed = TRUE,
                            !.meta = buildMeta(ZeroRag, Len(latestFacts))]
                   ELSE [req EXCEPT !.pc = "saveChat", !.latestFacts = latestFacts,
                            !.answer = AnsNoPreferences,
                            !.memoryUsed = FALSE,
                            !.meta = buildMeta(ZeroRag, 0)],
                   <<"mem.facts">>)
    /\ UNCHANGED <<rows, nextId, chunks, nonChatVars>>

AfterClassifyMutNoSynthetic(r, keyFact0) ==
    LET keyFact == keyFact0
        c == [r EXCEPT !.keyFact = keyFact]
    IN  IF /\ ~keyFact.isNull
           /\ keyFact.intent = "introducing"
           /\ keyFact.value # <<>>
           /\ isIdentityKey(keyFact.key)
        THEN ToSaveFact(c, "identityFact", keyFact.key, keyFact.value,
                        Greeting(keyFact.value))
        ELSE IF /\ ~keyFact.isNull
                /\ keyFact.intent \in {"introducing", "updating"}
                /\ keyFact.value # <<>>
                /\ ~isIdentityKey(keyFact.key)
        THEN ToSaveFact(c, "otherFact", keyFact.key, keyFact.value,
                        FactAck(r.question))
        ELSE [c EXCEPT !.pc = "latestFacts"]

\* handleChat after extractDynamicKeyFact returned keyFact0
AfterClassify(r, keyFact0) ==
    LET keyFact == IF keyFact0.isNull /\ r.isDirectPersonalQuestion
                   THEN SyntheticAsking ELSE keyFact0
        c == [r EXCEPT !.keyFact = keyFact]
    IN  IF /\ ~keyFact.isNull
           /\ keyFact.intent = "introducing"
           /\ keyFact.value # <<>>
           /\ isIdentityKey(keyFact.key)
        THEN ToSaveFact(c, "identityFact", keyFact.key, keyFact.value,
                        Greeting(keyFact.value))
        ELSE IF /\ ~keyFact.isNull
                /\ keyFact.intent \in {"introducing", "updating"}
                /\ keyFact.value # <<>>
                /\ ~isIdentityKey(keyFact.key)
        THEN ToSaveFact(c, "otherFact", keyFact.key, keyFact.value,
                        FactAck(r.question))
        ELSE [c EXCEPT !.pc = "latestFacts"]

\* await extractDynamicKeyFact(question): one completion call, parsed
ChatClassify ==
    /\ req.pc = "classify"
    /\ \/ \E e \in ChatPortErrors :
             req' = Threw(req, <<"llm.classify">>, callLLMFailure(e))
       \/ \E reply \in ClassifierReplies :
             LET keyFact == extractDynamicKeyFact(reply) IN
             req' = IF keyFact.threw
                    THEN Threw(req, <<"llm.classify">>, Thrown("parse", Undef))
                    ELSE AfterClassify(Event(req, <<"llm.classify">>), keyFact)
    /\ UNCHANGED <<rows, nextId, chunks, nonChatVars>>

\* await getLatestFactsByKey(userId), then detectHighLevelIntent
ChatLatestFacts ==
    /\ req.pc = "latestFacts"
    /\ \E latestFacts \in getLatestFactsByKey(rows, req.userId) :
          req' = Event([req EXCEPT !.pc = "probe", !.latestFacts = latestFacts,
                           !.intent = detectHighLevelIntent(req.keyFact,
                                         req.hasPolicyKeyword,
                                         req.isDirectPersonalQuestion)],
                       <<"mem.facts">>)
    /\ UNCHANGED <<rows, nextId, chunks, nonChatVars>>

\* buildContextFromChunks: the chunks' contents joined by "\n---\n"
RECURSIVE buildContextFromChunks(_)
buildContextFromChunks(finalChunks) ==
    IF finalChunks = <<>> THEN <<>>
    ELSE <<"chunk ", ToString(Head(finalChunks).id)>>
         \o (IF Len(finalChunks) = 1 THEN <<>>
             ELSE <<"\n---\n">> \o buildContextFromChunks(Tail(finalChunks)))

\* parts.join("\n")
RECURSIVE JoinLines(_)
JoinLines(parts) ==
    IF parts = <<>> THEN <<>>
    ELSE IF Len(parts) = 1 THEN parts[1]
    ELSE parts[1] \o <<"\n">> \o JoinLines(Tail(parts))

\* keyFact && keyFact.key && keyFact.key !== "unknown"
HasEffectiveKey(keyFact) ==
    ~keyFact.isNull /\ keyFact.key # "" /\ keyFact.key # "unknown"

\* handlePureMemoryQuery up to its saveMemory call
handlePureMemoryQuery(r) ==
    LET relevantFacts == IF HasEffectiveKey(r.keyFact)
                         THEN FactsWithKey(r.latestFacts, r.keyFact.key) ELSE <<>>
        list == JoinAnd(ContentsOf(relevantFacts))
    IN  [r EXCEPT !.pc = "saveChat", !.branch = "memory",
                  !.answer = IF relevantFacts = <<>> THEN AnsNoMemory
                             ELSE IF isIdentityKey(r.keyFact.key)
                             THEN <<"Your ", r.keyFact.key, " is ">> \o list \o <<".">>
                             ELSE <<"Your preferences include ">> \o list \o <<".">>,
                  !.memoryUsed = relevantFacts # <<>>,
                  !.contextUsed = <<>>,
                  !.meta = buildMeta(ZeroRag, Len(r.latestFacts))]

\* handleMergedMemoryPolicyQuery up to its buildRagAndMemory call
MergedMemorySentence(r) ==
    LET memoryKey == IF HasEffectiveKey(r.keyFact) THEN r.keyFact.key ELSE "name"
        matchedFacts == FactsWithKey(r.latestFacts, memoryKey)
        combinedFacts == JoinAnd(ContentsOf(matchedFacts))
    IN  [r EXCEPT !.pc = "buildRagAndMemory", !.branch = "merged",
                  !.matchedFacts = Len(matchedFacts),
                  !.memorySentence =
                      IF matchedFacts # <<>>
                      THEN (IF isIdentityKey(memoryKey)
                            THEN <<"Your ", memoryKey, " is ">> \o combinedFacts \o <<".">>
                            ELSE <<"Your ", memoryKey, " includes ">> \o combinedFacts
                                 \o <<".">>)
                      ELSE <<"I don't have your ", memoryKey, " stored yet.">>]

\* the dispatch at the end of handleChat
Dispatch(r) ==
    IF r.intent = "PURE_MEMORY_QUERY" THEN handlePureMemoryQuery(r)
    ELSE IF r.intent = "MERGED_MEMORY_POLICY_QUERY" THEN MergedMemorySentence(r)
    ELSE IF r.intent = "PURE_POLICY_QUERY"
    THEN [r EXCEPT !.pc = "buildRagAndMemory", !.branch = "policy"]
    ELSE [r EXCEPT !.pc = "buildRagAndMemory", !.branch = "unknown"]

UpgradeMutNever(intent, probeRag) == intent

\* if (intent === "UNKNOWN" && probeRag.finalChunks.length > 0)
Upgrade(intent, probeRag) ==
    IF intent = "UNKNOWN" /\ Len(probeRag.finalChunks) > 0
    THEN "PURE_POLICY_QUERY" ELSE intent

\* await embedText(trimmedQuestion); await getRagContextForQuery; dispatch
ChatProbe ==
    /\ req.pc = "probe"
    /\ \E portOk \in BOOLEAN :
          LET e == embedText(trim(req.question), portOk) IN
          IF e.threw
          THEN \E err \in EmbedFailures(e.called) :
                  req' = Threw(req, IF e.called THEN <<"embed">> ELSE <<>>, err)
          ELSE \E raw \in queryChunksByEmbedding(chunks, RagTopK) :
                  LET probeRag == getRagContextForQuery(raw, RagTopK, RagDistanceThreshold)
                  IN  req' = Dispatch(Event(
                                 [req EXCEPT !.probeChunks = Len(probeRag.finalChunks),
                                             !.intent = Upgrade(req.intent, probeRag)],
                                 <<"embed", "chunks.query">>))
    /\ UNCHANGED <<rows, nextId, chunks, nonChatVars>>

\* what a pipeline does once buildRagAndMemory has returned
AfterRagAndMemory(r) ==
    LET hasRag == Len(r.ragResult.finalChunks) > 0
        hasMemory == r.memoryText # <<>>
    IN  CASE r.branch = "merged" ->
               IF ~hasRag
               THEN [r EXCEPT !.pc = "saveChat",
                        !.answer = trim(r.memorySentence \o <<" ">> \o AnsMergedNoChunks),
                        !.contextUsed = r.ragResult.finalChunks,
                        !.memoryUsed = (r.matchedFacts > 0 \/ hasMemory),
                        !.meta = buildMeta(r.ragResult.meta, Len(r.latestFacts))]
               ELSE [r EXCEPT !.pc = "complete", !.llmContext = r.ragContext]
          [] r.branch = "policy" ->
               IF ~hasRag
               THEN [r EXCEPT !.pc = "saveChat", !.answer = AnsPolicyNoChunks,
                        !.contextUsed = r.ragResult.finalChunks,
                        !.memoryUsed = hasMemory,
                        !.meta = buildMeta(r.ragResult.meta, Len(r.latestFacts))]
               ELSE [r EXCEPT !.pc = "complete", !.llmContext = r.ragContext]
          [] OTHER ->
               IF ~hasRag /\ ~hasMemory
               THEN [r EXCEPT !.pc = "saveChat", !.answer = AnsUnknownClarify,
                        !.contextUsed = <<>>,
                        !.memoryUsed = hasMemory,
                        !.meta = buildMeta(ZeroRag, Len(r.latestFacts))]
               ELSE [r EXCEPT !.pc = "complete",
                        !.llmContext = IF hasRag THEN r.ragContext ELSE <<>>]

\* buildRagAndMemory: await embedText(question), getRagContextForQuery and
\* retrieveMemory(userId, qEmbedding, similarTopK, "user")
ChatBuildRagAndMemory ==
    /\ req.pc = "buildRagAndMemory"
    /\ \E portOk \in BOOLEAN :
          LET e == embedText(req.question, portOk) IN
          IF e.threw
          THEN \E err \in EmbedFailures(e.called) :
                  req' = Threw(req, IF e.called THEN <<"embed">> ELSE <<>>, err)
          ELSE \E raw \in queryChunksByEmbedding(chunks, RagTopK),
                  otherMemoryResults \in retrieveMemory(rows, req.userId, SimilarTopK, "user") :
                  LET ragResult == getRagContextForQuery(raw, RagTopK, RagDistanceThreshold)
                      memoryText == JoinLines(SelectSeq(
                                        ContentsOf(req.latestFacts) \o otherMemoryResults,
                                        IsNonEmptyText))
                  IN  req' = AfterRagAndMemory(Event(
                                 [req EXCEPT !.ragResult = ragResult,
                                     !.ragContext = buildContextFromChunks(ragResult.finalChunks),
                                     !.memoryText = memoryText],
                                 <<"embed", "chunks.query", "mem.retrieve">>))
    /\ UNCHANGED <<rows, nextId, chunks, nonChatVars>>

\* what a pipeline does with the completion's reply `raw`
AfterCompletion(r, raw) ==
    LET cleaned == trim(raw)
        hasRag == Len(r.ragResult.finalChunks) > 0
        c == [r EXCEPT !.pc = "saveChat", !.raw = raw,
                       !.contextUsed = r.ragResult.finalChunks,
                       !.memoryUsed = (r.memoryText # <<>>),
                       !.meta = buildMeta(r.ragResult.meta, Len(r.latestFacts))]
    IN  CASE r.branch = "merged" ->
               LET policyAnswer == IF NeedsFallback(cleaned) THEN AnsMergedFallback
                                   ELSE cleaned
               IN  [c EXCEPT !.answer = trim(r.memorySentence \o <<" ">> \o policyAnswer),
                             !.memoryUsed = (r.matchedFacts > 0 \/ r.memoryText # <<>>)]
          [] r.branch = "policy" ->
               [c EXCEPT !.answer = IF NeedsFallback(cleaned) THEN AnsPolicyFallback
                                    ELSE cleaned]
          [] OTHER ->
               [c EXCEPT !.answer = IF cleaned # <<>> THEN cleaned ELSE AnsUnknownNotSure,
                         !.meta = buildMeta(IF hasRag THEN r.ragResult.meta ELSE ZeroRag,
                                            Len(r.latestFacts))]

\* await callLLM(prompt, context, history, memoryText)
ChatComplete ==
    /\ req.pc = "complete"
    /\ \/ \E e \in ChatPortErrors :
             req' = Threw(req, <<"llm.answer">>, callLLMFailure(e))
       \/ \E raw \in AnswerReplies :
             req' = AfterCompletion(Event(req, <<"llm.answer">>), raw)
    /\ UNCHANGED <<rows, nextId, chunks, nonChatVars>>

\* await saveMemory(userId, "assistant", answer, undefined, "chat"); return
ChatSaveAnswer ==
    /\ req.pc = "saveChat"
    /\ \E portOk \in BOOLEAN :
          LET res == saveMemory(rows, nextId, req.userId, "assistant", req.answer,
                                Undefined, "chat", portOk)
              embed == IF res.embedCalled THEN <<"embed">> ELSE <<>>
          IN  IF res.threw
              THEN /\ \E err \in EmbedFailures(res.embedCalled) :
                         req' = Threw(req, embed, err)
                   /\ UNCHANGED <<rows, nextId>>
              ELSE /\ req' = Returned(Event(req, embed \o <<"mem.saveChat">>))
                   /\ rows' = res.rows
                   /\ nextId' = res.nextId
    /\ UNCHANGED <<chunks, nonChatVars>>

\* a document chunk is ingested while the chat service runs
Ingest ==
    /\ \E id \in ChatChunkIds \ {c.id : c \in chunks}, dist \in ChatDistances :
          chunks' = chunks \cup {[id |-> id, distance |-> dist]}
    /\ UNCHANGED <<rows, nextId, req, nonChatVars>>

\* ---- memories already stored when the service starts ----
Store(table, id) == [rows |-> table, nextId |-> id]

\* the two saves of a request that stored `value` under `key` and answered
SavedExchange(s, userId, key, value, answer) ==
    LET a == saveMemory(s.rows, s.nextId, userId, "user", value, key, "fact", TRUE)
        b == saveMemory(a.rows, a.nextId, userId, "assistant", answer, Undefined,
                        "chat", TRUE)
    IN  Store(b.rows, b.nextId)

NameAl == <<"A", "l">>
NameBo == <<"B", "o">>
PrefTea == <<"t", "e", "a">>

EmptyStore == Store(<<>>, 1)
StoreAl == SavedExchange(EmptyStore, "u1", "name", NameAl, Greeting(NameAl))
StoreAlTea == SavedExchange(StoreAl, "u1", "preference", PrefTea, LikeAck(PrefTea))
StoreBo == SavedExchange(EmptyStore, "u2", "name", NameBo, Greeting(NameBo))
SeedStores == {EmptyStore, StoreAl, StoreAlTea, StoreBo}


ChatInit ==
    /\ chunks = {}
    /\ req = ReqIdle

(***************************************************************************)
(* conversation_id column detection: ensureConversationIdColumn            *)
(*                                                                         *)
(* Two module-level flags cache whether episodic_memory has the column.    *)
(* A call that finds the flag unset awaits an information_schema query;    *)
(* other calls run while it waits.  The code after the await (assigning    *)
(* both flags and returning) runs without interruption.                    *)
(***************************************************************************)
MaxColumnCallers == 2
MaxColumnCalls == 3
ColumnCallers == 1..MaxColumnCallers

ColumnInit ==
    /\ conversationIdColumnChecked = FALSE
    /\ conversationIdColumnExists = FALSE
    /\ \E inStore \in BOOLEAN :
          columnCalls = [inStore |-> inStore,
                         pc |-> [c \in ColumnCallers |-> "idle"],
                         ret |-> [c \in ColumnCallers |-> FALSE],
                         cachedAtEntry |-> [c \in ColumnCallers |-> FALSE],
                         started |-> 0,
                         queries |-> 0,
                         failed |-> FALSE]

\* the component at rest, for the specifications that do not exercise it
ColumnIdle ==
    /\ conversationIdColumnChecked = FALSE
    /\ conversationIdColumnExists = FALSE
    /\ columnCalls = [inStore |-> FALSE,
                      pc |-> [c \in ColumnCallers |-> "idle"],
                      ret |-> [c \in ColumnCallers |-> FALSE],
                      cachedAtEntry |-> [c \in ColumnCallers |-> FALSE],
                      started |-> 0,
                      queries |-> 0,
                      failed |-> FALSE]

\* a repository call with a conversationId enters: `if (checked) return exists`,
\* otherwise it sends the query and waits
EnsureEnter(c) ==
    /\ columnCalls.pc[c] = "idle"
    /\ columnCalls.started < MaxColumnCalls
    /\ IF conversationIdColumnChecked
         THEN columnCalls' = [columnCalls EXCEPT
                                !.pc[c] = "returned",
                                !.ret[c] = conversationIdColumnExists,
                                !.cachedAtEntry[c] = TRUE,
                                !.started = @ + 1]
         ELSE columnCalls' = [columnCalls EXCEPT
                                !.pc[c] = "query",
                                !.cachedAtEntry[c] = FALSE,
                                !.started = @ + 1,
                                !.queries = @ + 1]
    /\ UNCHANGED <<conversationIdColumnChecked, conversationIdColumnExists>>
    /\ UNCHANGED <<storeVars, ragVars, retryVars, chatVars, writerVars, rankVars, clsVars, pureVars, convVars>>

\* the query answers: exists = rowCount > 0, then finally { checked = true }
EnsureQueryOk(c) ==
    /\ columnCalls.pc[c] = "query"
    /\ conversationIdColumnExists' = columnCalls.inStore
    /\ conversationIdColumnChecked' = TRUE
    /\ columnCalls' = [columnCalls EXCEPT !.pc[c] = "returned",
                                           !.ret[c] = columnCalls.inStore]
    /\ UNCHANGED <<storeVars, ragVars, retryVars, chatVars, writerVars, rankVars, clsVars, pureVars, convVars>>

\* the query rejects: catch { exists = false }, then finally { checked = true }
EnsureQueryFails(c) ==
    /\ columnCalls.pc[c] = "query"
    /\ conversationIdColumnExists' = FALSE
    /\ conversationIdColumnChecked' = TRUE
    /\ columnCalls' = [columnCalls EXCEPT !.pc[c] = "returned", !.ret[c] = FALSE,
                                           !.failed = TRUE]
    /\ UNCHANGED <<storeVars, ragVars, retryVars, chatVars, writerVars, rankVars, clsVars, pureVars, convVars>>

\* the repository call that asked finishes; its request may call again
EnsureLeave(c) ==
    /\ columnCalls.pc[c] = "returned"
    /\ columnCalls' = [columnCalls EXCEPT !.pc[c] = "idle"]
    /\ UNCHANGED <<conversationIdColumnChecked, conversationIdColumnExists>>
    /\ UNCHANGED <<storeVars, ragVars, retryVars, chatVars, writerVars, rankVars, clsVars, pureVars, convVars>>


(***************************************************************************)
(* concurrent fact writers                                                 *)
(*                                                                         *)
(* saveMemory awaits the embedding, then awaits one INSERT ... ON CONFLICT *)
(* statement.  Requests served concurrently interleave at both awaits; the *)
(* statement itself is executed by the store in one step.                  *)
(***************************************************************************)
MaxWriters == 2
Writers == 1..MaxWriters
WriterUsers == {"u1"}
WriterContents == {<<"a">>, <<"b", " ">>, <<"c">>}

WriterIdle == [pc |-> "idle", userId |-> "", memoryKey |-> "", content |-> <<>>,
               embedding |-> <<>>]

WritersIdle ==
    /\ writers = [w \in Writers |-> WriterIdle]
    /\ lastUpsert = [p \in Users \X FactKeys |-> {}]

WritersInit ==
    /\ \E s \in {EmptyStore, StoreAl} : rows = s.rows /\ nextId = s.nextId
    /\ nCalls = 0
    /\ lastCall = NoCall
    /\ latestFact = [p \in Users \X FactKeys |-> NoFact]
    /\ chatSaves = 0
    /\ WritersIdle

\* saveMemory(userId, "user", content, memoryKey, "fact") is called and awaits
\* embedText(content)
WriterStart(w) ==
    /\ writers[w].pc = "idle"
    /\ \E userId \in WriterUsers, memoryKey \in FactKeys, content \in WriterContents :
          writers' = [writers EXCEPT ![w] = [pc |-> "embed", userId |-> userId,
                                             memoryKey |-> memoryKey,
                                             content |-> content,
                                             embedding |-> <<>>]]
    /\ UNCHANGED <<lastUpsert, storeVars, ragVars, retryVars, chatVars, columnVars,
                   rankVars, clsVars, pureVars, convVars>>

\* the embedding arrives, or embedText throws and saveMemory rejects
WriterEmbed(w) ==
    /\ writers[w].pc = "embed"
    /\ \E portOk \in BOOLEAN :
          LET e == embedText(writers[w].content, portOk) IN
          writers' = [writers EXCEPT ![w].pc = IF e.threw THEN "failed" ELSE "upsert",
                                     ![w].embedding = e.embedding]
    /\ UNCHANGED <<lastUpsert, storeVars, ragVars, retryVars, chatVars, columnVars,
                   rankVars, clsVars, pureVars, convVars>>

\* the store executes this writer's statement
WriterUpsert(w) ==
    /\ writers[w].pc = "upsert"
    /\ rows' = UpsertFact(rows, nextId, writers[w].userId, "user", writers[w].content,
                          writers[w].embedding, writers[w].memoryKey)
    /\ nextId' = nextId + 1
    /\ writers' = [writers EXCEPT ![w].pc = "done"]
    /\ lastUpsert' = [lastUpsert EXCEPT ![<<writers[w].userId, writers[w].memoryKey>>] = {w}]
    /\ UNCHANGED <<nCalls, lastCall, latestFact, chatSaves, ragVars, retryVars, chatVars,
                   columnVars, rankVars, clsVars, pureVars, convVars>>


(***************************************************************************)
(* memory ranking: PostgresMemoryRepository.retrieveMemory                 *)
(*                                                                         *)
(* Distances are in tenths, ages in days, scores in hundredths:            *)
(*   100 * (similarity*0.6 + recency*0.3 + typeBoost)                      *)
(*     = 6 * (10*similarity) + (30*recency) + (20 for a fact row)          *)
(***************************************************************************)
MaxRankRows == 4
RankLimits == {0, 1, 2}
RankRoles == {"user", "any"}

RankRow(content, userId, role, memoryType, distance, hasTimestamp, age) ==
    [content |-> content, user_id |-> userId, role |-> role,
     memory_type |-> memoryType, distance |-> distance,
     hasTimestamp |-> hasTimestamp, age |-> age]

\* the kinds of row a table is built from: a near fresh chat row, a fact with
\* no timestamp, an old chat row at the same distance, a far fresh fact of the
\* assistant, and a row of another user
RankRowKinds ==
    {RankRow("near", "u1", "user", "chat", 0, TRUE, 0),
     RankRow("fact", "u1", "user", "fact", 5, FALSE, 0),
     RankRow("old", "u1", "user", "chat", 5, TRUE, 45),
     RankRow("far", "u1", "assistant", "fact", 12, TRUE, 0),
     RankRow("other", "u2", "user", "fact", 0, TRUE, 0)}

RankTables == UNION {[1..n -> RankRowKinds] : n \in 0..MaxRankRows}

Clamp(x, lo, hi) == IF x < lo THEN lo ELSE IF x > hi THEN hi ELSE x

\* Math.max(0, Math.min(1, 1 - row.distance)), in tenths
Similarity10(row) == Clamp(10 - row.distance, 0, 10)

\* 0.5 without updated_at, else Math.max(0, Math.min(1, 1 - ageRatio)), in thirtieths
Recency30(row) == IF row.hasTimestamp THEN Clamp(30 - row.age, 0, 30) ELSE 15

TypeBoost100(row) == IF row.memory_type = "fact" THEN 20 ELSE 0

Score100(row) == 6 * Similarity10(row) + Recency30(row) + TypeBoost100(row)

\* Math.max(limit * 3, limit)
CandidateLimit(limit) == IF limit * 3 > limit THEN limit * 3 ELSE limit

\* WHERE user_id = $1 [AND role = ...]
RankMatching(table, userId, role) ==
    {i \in 1..Len(table) :
        table[i].user_id = userId /\ (role = "any" \/ table[i].role = role)}

\* ORDER BY embedding <-> $2 LIMIT candidateLimit: the first candidateLimit rows
\* of any ordering by distance; rows at equal distance come in any order
RankCandidates(table, userId, role, limit) ==
    LET idx == RankMatching(table, userId, role)
        n == MinOf(CandidateLimit(limit), Cardinality(idx))
    IN {SubSeq(seq, 1, n) :
        seq \in {o \in Orderings(idx) :
                    \A a, b \in 1..Len(o) :
                        a < b => table[o[a]].distance <= table[o[b]].distance}}

\* Array.prototype.sort((a, b) => b.score - a.score): stable, descending
RECURSIVE InsertByScore(_, _, _)
InsertByScore(table, sorted, i) ==
    IF sorted = <<>> THEN <<i>>
    ELSE IF Score100(table[Head(sorted)]) >= Score100(table[i])
         THEN <<Head(sorted)>> \o InsertByScore(table, Tail(sorted), i)
         ELSE <<i>> \o sorted

RECURSIVE SortByScoreFrom(_, _, _)
SortByScoreFrom(table, sorted, rest) ==
    IF rest = <<>> THEN sorted
    ELSE SortByScoreFrom(table, InsertByScore(table, sorted, Head(rest)), Tail(rest))

SortByScoreMutKeepOrder(table, candidates) == candidates

SortByScore(table, candidates) == SortByScoreFrom(table, <<>>, candidates)

\* scored.slice(0, limit)
Slice(seq, limit) == SubSeq(seq, 1, MinOf(limit, Len(seq)))

\* the rows retrieveMemory returns for the candidates the store handed back
RankPicked(table, candidates, limit) == Slice(SortByScore(table, candidates), limit)

RankContents(table, picked) == [k \in 1..Len(picked) |-> table[picked[k]].content]

\* every result retrieveMemory can return on this table
retrieveMemoryRanked(table, userId, limit, role) ==
    {RankContents(table, RankPicked(table, c, limit)) :
        c \in RankCandidates(table, userId, role, limit)}

NoRank == [done |-> FALSE, candidates |-> <<>>, picked |-> <<>>, contents |-> <<>>]

RankIdle ==
    /\ rankIn = [table |-> <<>>, userId |-> "u1", limit |-> 0, role |-> "user"]
    /\ rankOut = NoRank

RankInit ==
    /\ \E table \in RankTables, limit \in RankLimits, role \in RankRoles :
          rankIn = [table |-> table, userId |-> "u1", limit |-> limit, role |-> role]
    /\ rankOut = NoRank

\* one call of retrieveMemory
RankQuery ==
    /\ ~rankOut.done
    /\ \E c \in RankCandidates(rankIn.table, rankIn.userId, rankIn.role, rankIn.limit) :
          LET picked == RankPicked(rankIn.table, c, rankIn.limit) IN
          rankOut' = [done |-> TRUE, candidates |-> c, picked |-> picked,
                      contents |-> RankContents(rankIn.table, picked)]
    /\ UNCHANGED <<rankIn, storeVars, ragVars, retryVars, chatVars, columnVars,
                   writerVars, clsVars, pureVars, convVars>>


(***************************************************************************)
(* fact extraction on every shape of completion reply                      *)
(***************************************************************************)
ClsPrefixes == {"none", "prose", "brace"}
ClsBodies == {
    JsonNone, JsonNull, JsonScalar,
    JsonObject("name", <<"A", "l">>, "introducing"),
    JsonObject("Name", <<"B", "o">>, "updating"),
    JsonObject("food", <<>>, "asking"),
    JsonObject("name", <<"A", "l">>, "greeting"),
    JsonObject(Undefined, <<"A", "l">>, "introducing"),
    JsonObject("", <<"A", "l">>, "introducing"),
    JsonObject("name", <<"A", "l">>, Undefined),
    JsonObject("name", <<"A", "l">>, "<number>") }
ClsReplies == {Reply(pre, body, post) :
                  pre \in ClsPrefixes, body \in ClsBodies, post \in BOOLEAN}

\* the questions handleChat hands to extractDynamicKeyFact
ClsQuestions == {q \in Questions : Receive("u1", q, <<>>).pc = "classify"}

\* where handleChat stands after the extraction: the branch taken and the
\* candidate it works with
ClsNext(r) == [pc |-> r.pc, branch |-> r.branch, keyFact |-> r.keyFact,
               factKey |-> r.factKey, factValue |-> r.factValue, answer |-> r.answer]

NoCls(question, reply) ==
    [question |-> question, reply |-> reply, done |-> FALSE, threw |-> FALSE,
     keyFact |-> NoFactCandidate, next |-> ClsNext(ReqIdle)]

ClsIdle == cls = NoCls(<<>>, Reply("none", JsonNull, FALSE))

ClsInit == \E question \in ClsQuestions, reply \in ClsReplies :
              cls = NoCls(question, reply)

\* the completion call returned cls.reply; extractDynamicKeyFact runs on it and
\* handleChat goes on with what it returned
ClsExtract ==
    /\ ~cls.done
    /\ LET keyFact == extractDynamicKeyFact(cls.reply)
           r == Receive("u1", cls.question, <<>>) IN
       cls' = IF keyFact.threw
              THEN [cls EXCEPT !.done = TRUE, !.threw = TRUE]
              ELSE [cls EXCEPT !.done = TRUE, !.keyFact = keyFact,
                               !.next = ClsNext(AfterClassify(r, keyFact))]
    /\ UNCHANGED <<storeVars, ragVars, retryVars, chatVars, columnVars, writerVars,
                   rankVars, pureVars, convVars>>


(***************************************************************************)
(* detectHighLevelIntent and isGarbageQuestion on drawn arguments          *)
(***************************************************************************)
IntentCandidates ==
    {NoFactCandidate} \cup
    {[isNull |-> FALSE, key |-> k, value |-> v, intent |-> i, threw |-> FALSE] :
        k \in {"name", "food", "unknown"},
        v \in {<<>>, <<"A", "l">>},
        i \in {"introducing", "updating", "asking", "neutral", "greeting"}}

MaxGarbagePieces == 3
GarbagePieces == {
    <<"w", "h", "a", "t">>,
    <<"T", "e", "a", ",">>,
    <<" ">>,
    <<"x", "k">>,
    <<"9">>,
    <<"?">>,
    <<"!">>,
    <<"a", "b", "c", "d", "e", "f", "g", "h", "i", "j",
      "k", "l", "m", "n", "o", "p", "q", "r", "s", "t">> }

RECURSIVE Concat(_)
Concat(pieces) == IF pieces = <<>> THEN <<>> ELSE Head(pieces) \o Concat(Tail(pieces))

QAsdkj == <<"a", "s", "d", "k", "j", "!", "!", "1">>
QCoffee == <<"W", "h", "a", "t", " ", "d", "o", "e", "s", " ", "t", "h", "e", " ",
             "p", "o", "l", "i", "c", "y", " ", "s", "a", "y", " ", "a", "b", "o",
             "u", "t", " ", "c", "o", "f", "f", "e", "e", "?">>

GarbageTexts ==
    {QAsdkj, QCoffee} \cup Questions \cup
    {Concat(p) : p \in UNION {[1..n -> GarbagePieces] : n \in 0..MaxGarbagePieces}}

NoPure == [fn |-> "none", keyFact |-> NoFactCandidate, hasPolicyKeyword |-> FALSE,
           isDirectPersonalQuestion |-> FALSE, text |-> <<>>, done |-> FALSE,
           intent |-> "none", garbage |-> FALSE]

PureIdle == pure = NoPure

PureInit ==
    \/ \E keyFact \in IntentCandidates, hasPolicyKeyword \in BOOLEAN,
          isDirectPersonalQuestion \in BOOLEAN :
          pure = [NoPure EXCEPT !.fn = "detectHighLevelIntent", !.keyFact = keyFact,
                                !.hasPolicyKeyword = hasPolicyKeyword,
                                !.isDirectPersonalQuestion = isDirectPersonalQuestion]
    \/ \E text \in GarbageTexts :
          pure = [NoPure EXCEPT !.fn = "isGarbageQuestion", !.text = text]

\* one call of detectHighLevelIntent
DetectIntent ==
    /\ pure.fn = "detectHighLevelIntent" /\ ~pure.done
    /\ pure' = [pure EXCEPT !.done = TRUE,
                            !.intent = detectHighLevelIntent(pure.keyFact,
                                           pure.hasPolicyKeyword,
                                           pure.isDirectPersonalQuestion)]
    /\ UNCHANGED <<storeVars, ragVars, retryVars, chatVars, columnVars, writerVars,
                   rankVars, clsVars, convVars>>

\* one call of isGarbageQuestion
CheckGarbage ==
    /\ pure.fn = "isGarbageQuestion" /\ ~pure.done
    /\ pure' = [pure EXCEPT !.done = TRUE, !.garbage = isGarbageQuestion(pure.text)]
    /\ UNCHANGED <<storeVars, ragVars, retryVars, chatVars, columnVars, writerVars,
                   rankVars, clsVars, convVars>>


(***************************************************************************)
(* conversation-scoped repository calls                                    *)
(*                                                                         *)
(* With a conversationId and the conversation_id column detected, saveMemory*)
(* writes the id with a new row and getLatestFactsByKey filters by it.     *)
(* The table's unique constraint is (user_id, memory_key).                 *)
(***************************************************************************)
MaxConvCalls == 2

ConvUsers == {"u1", "u2"}
ConvKeys == {"name", "preference"}
ConvContents == {<<"a">>, <<"b">>}
\* conversationId arguments: absent, or one of two conversations
ConversationIds == {"c1", "c2"}
ConvIdArgs == {Undefined} \cup ConversationIds

\* conversationId !== null && conversationId !== undefined
\*   && (await ensureConversationIdColumn())
HasConversationColumn(conversationId, columnExists) ==
    conversationId \notin {NULL, Undefined} /\ columnExists

\* the row a statement inserts; conversation_id is NULL on the legacy path
ConvRow(id, userId, role, content, memoryKey, memoryType, conversationId, scoped) ==
    [id |-> id, user_id |-> userId, role |-> role, content |-> content,
     memory_key |-> memoryKey, memory_type |-> memoryType, updated_at |-> id,
     conversation_id |-> IF scoped THEN conversationId ELSE NULL]

\* INSERT ... VALUES (..., 'fact', $6) ON CONFLICT (user_id, memory_key)
\* DO UPDATE SET content, embedding, updated_at
ScopedUpsertFact(table, id, userId, role, content, memoryKey, conversationId, scoped) ==
    LET hit == ConflictIdx(table, userId, memoryKey) IN
    IF hit = {}
    THEN Append(table, ConvRow(id, userId, role, content, memoryKey, "fact",
                               conversationId, scoped))
    ELSE [i \in 1..Len(table) |->
            IF i \in hit
            THEN [table[i] EXCEPT !.content = content, !.updated_at = id]
            ELSE table[i]]

\* saveMemory(userId, role, content, memoryKey, memoryType, conversationId)
saveMemoryInConversation(table, id, userId, role, content, memoryKey, memoryType, conversationId, columnExists, portOk) ==
    LET e == embedText(content, portOk)
        t == DefaultType(memoryType)
        scoped == HasConversationColumn(conversationId, columnExists) IN
    IF e.threw
    THEN [threw |-> TRUE, rows |-> table, nextId |-> id]
    ELSE IF IsFactUpsert(memoryKey, t)
         THEN [threw |-> FALSE,
               rows |-> ScopedUpsertFact(table, id, userId, role, content, memoryKey,
                                         conversationId, scoped),
               nextId |-> id + 1]
         ELSE [threw |-> FALSE,
               rows |-> Append(table, ConvRow(id, userId, role, content, NULL, "chat",
                                              conversationId, scoped)),
               nextId |-> id + 1]

\* getLatestFactsByKey(userId, conversationId): per key the row with the
\* greatest id, among the conversation's rows when the filter applies
getLatestFactsByKeyInConversation(table, userId, conversationId, columnExists) ==
    LET useConversationFilter == HasConversationColumn(conversationId, columnExists)
        InScope(i) == /\ table[i].user_id = userId
                      /\ useConversationFilter => table[i].conversation_id = conversationId
    IN  {[memory_key |-> table[i].memory_key, content |-> table[i].content] :
            i \in {j \in 1..Len(table) :
                      /\ InScope(j)
                      /\ table[j].memory_key # NULL
                      /\ \A k \in 1..Len(table) :
                            (InScope(k) /\ table[k].memory_key = table[j].memory_key)
                                => table[k].id <= table[j].id}}

NoConvCall == [userId |-> "", content |-> <<>>, memoryKey |-> Undefined,
               memoryType |-> Undefined, conversationId |-> Undefined, threw |-> FALSE]

ConvIdle == conv = [rows |-> <<>>, nextId |-> 1, calls |-> 0, columnExists |-> FALSE,
                    last |-> NoConvCall]

\* an empty table; the column detection has settled on either answer
ConvInit ==
    \E columnExists \in BOOLEAN :
        conv = [rows |-> <<>>, nextId |-> 1, calls |-> 0, columnExists |-> columnExists,
                last |-> NoConvCall]

\* one call of saveMemory, with or without a conversationId
ConvSave ==
    /\ conv.calls < MaxConvCalls
    /\ \E u \in ConvUsers, c \in ConvContents, k \in ConvKeys \cup {Undefined},
          cid \in ConvIdArgs, portOk \in BOOLEAN :
          LET t == IF k = Undefined THEN "chat" ELSE "fact"
              role == IF k = Undefined THEN "assistant" ELSE "user"
              res == saveMemoryInConversation(conv.rows, conv.nextId, u, role, c, k, t,
                                              cid, conv.columnExists, portOk)
          IN  conv' = [conv EXCEPT !.rows = res.rows, !.nextId = res.nextId,
                                   !.calls = @ + 1,
                                   !.last = [userId |-> u, content |-> c, memoryKey |-> k,
                                             memoryType |-> t, conversationId |-> cid,
                                             threw |-> res.threw]]
    /\ UNCHANGED <<storeVars, ragVars, retryVars, chatVars, columnVars, writerVars,
                   rankVars, clsVars, pureVars>>

(***************************************************************************)
(* Specifications                                                          *)
(***************************************************************************)
ExtraIdle == ColumnIdle /\ WritersIdle /\ RankIdle /\ ClsIdle /\ PureIdle /\ ConvIdle

RagIdle ==
    /\ ragIn = [table |-> {}, topK |-> 1, distanceThreshold |-> 0, asked |-> TRUE]
    /\ ragOut = NoRag

\* the repository under arbitrary direct saveMemory calls
InitStore == StoreInit /\ RagIdle /\ RetryInit /\ ChatInit /\ ExtraIdle
NextStore == SaveMemoryCall
SpecStore == InitStore /\ [][NextStore]_vars

\* getRagContextForQuery on every bounded chunk table, topK and threshold
InitRag == StoreInit /\ RagInit /\ RetryInit /\ ChatInit /\ ExtraIdle
NextRag == RagQuery
SpecRag == InitRag /\ [][NextRag]_vars

\* withRetry around an operation that may succeed or raise any of Errors at
\* each invocation.  A pending delay() timer fires and a pending fn() settles.
InitRetry == StoreInit /\ RagIdle /\ RetryInit /\ ChatInit /\ ExtraIdle
NextRetry == WithRetryStart \/ WithRetryDelay \/ WithRetryAttemptOk \/ WithRetryAttemptFails
SpecRetry ==
    /\ InitRetry
    /\ [][NextRetry]_vars
    /\ WF_vars(WithRetryStart)
    /\ WF_vars(WithRetryDelay)
    /\ WF_vars(WithRetryAttemptOk \/ WithRetryAttemptFails)


\* handleChat serving one request against the memories earlier requests left,
\* while documents are ingested; every port call may fail and the completion
\* port may reply anything of ClassifierReplies and AnswerReplies
InitChat ==
    /\ \E s \in SeedStores : rows = s.rows /\ nextId = s.nextId
    /\ nCalls = 0
    /\ lastCall = NoCall
    /\ latestFact = [p \in Users \X FactKeys |-> NoFact]
    /\ chatSaves = 0
    /\ RagIdle /\ RetryInit /\ ChatInit /\ ExtraIdle
NextChat ==
    \/ ChatReceive
    \/ ChatSaveFact
    \/ ChatRecall
    \/ ChatClassify
    \/ ChatLatestFacts
    \/ ChatProbe
    \/ ChatBuildRagAndMemory
    \/ ChatComplete
    \/ ChatSaveAnswer
    \/ Ingest
SpecChat == InitChat /\ [][NextChat]_vars

\* repository calls that pass a conversationId, served concurrently
InitColumn ==
    /\ StoreInit /\ RagIdle /\ RetryInit /\ ChatInit
    /\ ColumnInit /\ WritersIdle /\ RankIdle /\ ClsIdle /\ PureIdle /\ ConvIdle
NextColumn ==
    \E c \in ColumnCallers :
        EnsureEnter(c) \/ EnsureQueryOk(c) \/ EnsureQueryFails(c) \/ EnsureLeave(c)
SpecColumn == InitColumn /\ [][NextColumn]_vars

\* fact saves of concurrent requests, on an empty store and on one that
\* already holds the fact
InitWriters ==
    /\ WritersInit /\ RagIdle /\ RetryInit /\ ChatInit
    /\ ColumnIdle /\ RankIdle /\ ClsIdle /\ PureIdle /\ ConvIdle
NextWriters == \E w \in Writers : WriterStart(w) \/ WriterEmbed(w) \/ WriterUpsert(w)
SpecWriters == InitWriters /\ [][NextWriters]_vars

\* retrieveMemory on every bounded table, limit and role
InitRank ==
    /\ StoreInit /\ RagIdle /\ RetryInit /\ ChatInit
    /\ ColumnIdle /\ WritersIdle /\ RankInit /\ ClsIdle /\ PureIdle /\ ConvIdle
NextRank == RankQuery
SpecRank == InitRank /\ [][NextRank]_vars

\* extractDynamicKeyFact on every reply of ClsReplies
InitClassify ==
    /\ StoreInit /\ RagIdle /\ RetryInit /\ ChatInit
    /\ ColumnIdle /\ WritersIdle /\ RankIdle /\ ClsInit /\ PureIdle /\ ConvIdle
NextClassify == ClsExtract
SpecClassify == InitClassify /\ [][NextClassify]_vars

\* detectHighLevelIntent on every candidate and flag, isGarbageQuestion on every
\* text of GarbageTexts
InitPure ==
    /\ StoreInit /\ RagIdle /\ RetryInit /\ ChatInit
    /\ ColumnIdle /\ WritersIdle /\ RankIdle /\ ClsIdle /\ PureInit /\ ConvIdle
NextPure == DetectIntent \/ CheckGarbage
SpecPure == InitPure /\ [][NextPure]_vars

\* saveMemory calls with and without a conversationId on one table
InitConv ==
    /\ StoreInit /\ RagIdle /\ RetryInit /\ ChatInit
    /\ ColumnIdle /\ WritersIdle /\ RankIdle /\ ClsIdle /\ PureIdle /\ ConvInit
NextConv == ConvSave
SpecConv == InitConv /\ [][NextConv]_vars

(***************************************************************************)
(* Properties of the memory store                                          *)
(***************************************************************************)
\* C1: after any sequence of saveMemory calls the table holds at most one row
\* per (userId, memoryKey) with a non-null key, that row exists exactly when a
\* fact save for the pair has completed, and its content is the content of the
\* most recent such save (a repeated save overwrites, it never adds a row).
C1_FactUpsertKeepsOneRow ==
    \A u \in Users, k \in FactKeys :
        LET hit == {i \in 1..Len(rows) : rows[i].user_id = u /\ rows[i].memory_key = k} IN
        /\ Cardinality(hit) <= 1
        /\ (hit = {}) <=> (latestFact[<<u, k>>] = NoFact)
        /\ \A i \in hit : rows[i].content = latestFact[<<u, k>>]

\* a fact was saved again with different content and the table still has one row
C1_Witness ==
    /\ lastCall.path = "fact"
    /\ lastCall.replaced # NoFact
    /\ lastCall.replaced # lastCall.content
    /\ Len(rows) = 1
    /\ rows[1].content = lastCall.content

\* the call is memoryType=fact with a memoryKey set
CallIsKeyedFact(call) ==
    call.memoryType = "fact" /\ call.memoryKey # Undefined /\ call.memoryKey # ""

ChatCallAppendsOneRow ==
    (nCalls' = nCalls + 1 /\ ~lastCall'.threw /\ ~CallIsKeyedFact(lastCall')) =>
        /\ Len(rows') = Len(rows) + 1
        /\ SubSeq(rows', 1, Len(rows)) = rows
        /\ LET r == rows'[Len(rows')] IN
            /\ r.memory_key = NULL
            /\ r.memory_type = "chat"
            /\ r.user_id = lastCall'.userId
            /\ r.role = lastCall'.role
            /\ r.content = lastCall'.content

\* C2: every completed saveMemory call that is not (memoryType=fact with a
\* memoryKey set) appends exactly one row with memoryKey=null and
\* memoryType=chat and leaves the existing rows unchanged; N such calls have
\* produced N such rows, identical contents included.
C2_ChatAppendOnly ==
    /\ [](chatSaves = Cardinality({i \in 1..Len(rows) : rows[i].memory_key = NULL}))
    /\ [][ChatCallAppendsOneRow]_vars

\* two chat saves with identical user, role and content left two rows
C2_Witness ==
    /\ lastCall.path = "chat"
    /\ chatSaves = 2
    /\ Len(rows) = 2
    /\ rows[1].memory_key = NULL /\ rows[2].memory_key = NULL
    /\ rows[1].content = rows[2].content
    /\ rows[1].user_id = rows[2].user_id
    /\ rows[1].role = rows[2].role

(***************************************************************************)
(* Properties of the RAG retrieval engine                                  *)
(***************************************************************************)
\* C3: filteredChunks is exactly the raw chunks with distance <= threshold, in
\* order; finalChunks is filteredChunks when that is non-empty and rawChunks
\* otherwise; meta.chunksReturned is the length of finalChunks; so finalChunks
\* equals rawChunks when every candidate exceeds the threshold and is empty only
\* when rawChunks is empty.
C3_RagFilterAndFallback ==
    ragIn.asked =>
        LET raw == ragOut.rawChunks
            within == {i \in 1..Len(raw) :
                          /\ raw[i].distance # NullDist
                          /\ raw[i].distance <= ragIn.distanceThreshold}
            nth(k) == CHOOSE i \in within : Cardinality({j \in within : j < i}) = k - 1
        IN  /\ Len(ragOut.filteredChunks) = Cardinality(within)
            /\ \A k \in 1..Len(ragOut.filteredChunks) : ragOut.filteredChunks[k] = raw[nth(k)]
            /\ ragOut.finalChunks = IF within # {} THEN ragOut.filteredChunks ELSE raw
            /\ ragOut.meta.chunksReturned = Len(ragOut.finalChunks)
            /\ (within = {} => ragOut.finalChunks = raw)
            /\ (ragOut.finalChunks = <<>> => raw = <<>>)

\* all of several candidates exceed the threshold and the raw set is returned
C3_Witness ==
    /\ ragIn.asked
    /\ Len(ragOut.rawChunks) >= 2
    /\ \A i \in 1..Len(ragOut.rawChunks) :
          /\ ragOut.rawChunks[i].distance # NullDist
          /\ ragOut.rawChunks[i].distance > ragIn.distanceThreshold
    /\ ragOut.filteredChunks = <<>>
    /\ ragOut.finalChunks = ragOut.rawChunks

(***************************************************************************)
(* Properties of the retry wrapper                                         *)
(***************************************************************************)
\* transient as the specification words it: a connection reset or timeout
\* code, or an HTTP status 429/500/502/503, anywhere on the error
Transient(e) ==
    \/ e.code \in {"ECONNRESET", "ETIMEDOUT"}
    \/ e.causeCode \in {"ECONNRESET", "ETIMEDOUT"}
    \/ \E f \in {e.statusCode, e.status, e.responseStatus} :
          f.t = "number" /\ f.n \in {429, 500, 502, 503}

RetryBudget ==
    LET n == Len(rt.outcomes) IN
    /\ n <= 3
    /\ \A i \in 1..n : i < n => (~rt.outcomes[i].ok /\ Transient(rt.outcomes[i].err))
    /\ \A i \in 1..n :
          (~rt.outcomes[i].ok /\ ~Transient(rt.outcomes[i].err)) =>
              /\ i = n
              /\ rt.pc = "threw"
              /\ rt.thrown = rt.outcomes[i].err
              /\ Len(rt.delays) = i - 1
              /\ Len(rt.retries) = i - 1
    /\ (n >= 1 /\ ~rt.outcomes[1].ok /\ ~Transient(rt.outcomes[1].err)) =>
          (n = 1 /\ rt.delays = <<>> /\ rt.retries = <<>>)
    /\ rt.pc = "returned" => (n >= 1 /\ rt.outcomes[n].ok /\ rt.result \in Results)
    /\ rt.pc = "threw" => (n >= 1 /\ ~rt.outcomes[n].ok)

\* C9: withRetry invokes the operation at most 3 times; it re-invokes only
\* after a transient failure; any other error ends the run at once with that
\* error, with no further delay and no further retry logged (none at all when
\* it is the first failure); every run ends with a result or an error.
C9_RetryBudgetAndTermination ==
    /\ []RetryBudget
    /\ (rt.pc \in {"call", "delay"}) ~> (rt.pc \in {"returned", "threw"})

\* the budget is used up: three invocations, all failing with transient errors
C9_Witness ==
    /\ rt.pc = "threw"
    /\ Len(rt.outcomes) = 3
    /\ Len(rt.retries) = 2

Http500 == ErrorShape(Undefined, Undefined, Undef, Num(500), Undef)
FailsTwiceThenSucceeds ==
    /\ rt.pc = "returned"
    /\ rt.outcomes = <<Failed(Http500), Failed(Http500), OkOutcome>>

\* C10 as stated: HTTP 500 on attempts 1 and 2 and success on attempt 3 give a
\* result with exactly 2 logged retries and delays 0ms then 200ms.
C10_AsStated ==
    FailsTwiceThenSucceeds =>
        (rt.result \in Results /\ Len(rt.retries) = 2 /\ rt.delays = <<0, 200>>)

\* C10 amended: the same run gives a result with exactly 2 logged retries
\* (attempts 1 and 2) and delays 200ms before attempt 2 and 500ms before
\* attempt 3; attempt 1 is not delayed.
C10_DelaysAre200Then500 ==
    FailsTwiceThenSucceeds =>
        (rt.result \in Results /\ rt.retries = <<1, 2>> /\ rt.delays = <<200, 500>>)

C10_Witness == FailsTwiceThenSucceeds

LastOutcome == rt.outcomes[Len(rt.outcomes)]

\* C11: when withRetry gives up (third failure, or a non-retryable error) the
\* error it throws is the error the last attempt raised, unchanged; when an
\* attempt succeeds its value is returned unmodified.
C11_RethrowsLastErrorUnchanged ==
    /\ rt.pc = "threw" =>
          /\ rt.outcomes # <<>>
          /\ ~LastOutcome.ok
          /\ rt.thrown = LastOutcome.err
          /\ (~isRetryableError(rt.thrown) \/ Len(rt.outcomes) = 3)
    /\ rt.pc = "returned" =>
          /\ rt.outcomes # <<>>
          /\ LastOutcome.ok
          /\ rt.result = rt.fnValue
          /\ rt.result \in Results

\* the budget is exhausted by three different transient errors
C11_Witness ==
    /\ rt.pc = "threw"
    /\ Len(rt.outcomes) = 3
    /\ rt.thrown = Http500
    /\ rt.outcomes[1].err # rt.thrown
    /\ rt.outcomes[2].err # rt.thrown
    /\ rt.outcomes[1].err # rt.outcomes[2].err

(***************************************************************************)
(* Properties of the chat orchestrator                                     *)
(***************************************************************************)
HasEvent(trace, e) == \E i \in 1..Len(trace) : trace[i] = e

\* the answer of the request is the content of the newest row, an assistant
\* chat row of the requesting user without a key
AnswerPersisted ==
    /\ rows # <<>>
    /\ LET last == rows[Len(rows)] IN
       /\ last.user_id = req.userId
       /\ last.role = "assistant"
       /\ last.content = req.response.answer
       /\ last.memory_key = NULL
       /\ last.memory_type = "chat"
    /\ req.trace # <<>>
    /\ req.trace[Len(req.trace)] = "mem.saveChat"

MetaShape ==
    /\ DOMAIN req.response.meta = {"rag", "memory"}
    /\ DOMAIN req.response.meta.rag = {"topK", "distanceThreshold", "chunksReturned"}
    /\ DOMAIN req.response.meta.memory = {"similarTopK", "factsCount"}

\* an "I don't know" clause: the phrase, not continued by a word character
ContainsDontKnowClause(text) ==
    \E i \in 1..Len(text) :
        /\ text[i] \in IdkPieces
        /\ (i = Len(text) \/ text[i + 1] \notin WordStartPieces)

PolicyAnswered ==
    /\ req.branch \in {"merged", "policy"}
    /\ req.pc \in {"saveChat", "done"}

\* C4 as stated: no answer returned or persisted by the MERGED_MEMORY_POLICY_QUERY
\* and PURE_POLICY_QUERY pipelines contains an "I don't know" clause.
C4_AsStated ==
    PolicyAnswered => ~ContainsDontKnowClause(req.answer)

\* the policy part of the answer of a pipeline that called the completion port
PolicyPartOf(cleaned, fallback) ==
    IF \/ cleaned = <<>>
       \/ SaysDontKnowFromTheDocument(cleaned)
       \/ StartsWithDontKnow(cleaned)
    THEN fallback ELSE cleaned

\* C4 (amended): in the MERGED_MEMORY_POLICY_QUERY and PURE_POLICY_QUERY
\* pipelines the fixed fallback sentence replaces the completion response
\* exactly when the trimmed response is empty, contains "I don't know from
\* the document" (in any case) or begins with "I don't know" at a word
\* boundary; every other response is used verbatim, also one that says
\* "I don't know" elsewhere.  A merged answer is the memory sentence, a space
\* and that policy sentence; the answer returned is the one persisted.
C4_FallbackOnExactDisclaimers ==
    /\ (PolicyAnswered /\ HasEvent(req.trace, "llm.answer")) =>
          LET cleaned == trim(req.raw) IN
          /\ req.branch = "policy" =>
                req.answer = PolicyPartOf(cleaned, AnsPolicyFallback)
          /\ req.branch = "merged" =>
                /\ req.memorySentence # <<>>
                /\ req.answer = req.memorySentence \o <<" ">>
                                \o PolicyPartOf(cleaned, AnsMergedFallback)
          /\ ~SaysDontKnowFromTheDocument(req.answer)
          /\ req.branch = "policy" => ~StartsWithDontKnow(req.answer)
    /\ (PolicyAnswered /\ ~HasEvent(req.trace, "llm.answer")) =>
          /\ req.ragResult.finalChunks = <<>>
          /\ req.branch = "policy" => req.answer = AnsPolicyNoChunks
          /\ req.branch = "merged" =>
                req.answer = req.memorySentence \o <<" ">> \o AnsMergedNoChunks
    /\ (PolicyAnswered /\ req.pc = "done") =>
          /\ req.response.answer = req.answer
          /\ AnswerPersisted

C4_Witness ==
    /\ req.pc = "done"
    /\ req.branch = "merged"
    /\ req.memorySentence = <<"Your ", "name", " is ", "A", "l", ".">>
    /\ trim(req.raw) = <<"I don't know", FtdPiece, ".">>
    /\ req.response.answer = req.memorySentence \o <<" ">> \o AnsMergedFallback

\* C5 as stated: every terminal branch of handleChat persists the assistant's
\* answer as a chat row (role assistant, no key) before returning, and returns
\* metadata {rag: {topK, distanceThreshold, chunksReturned},
\* memory: {similarTopK, factsCount}}.
C5_AsStated ==
    req.pc = "done" => (AnswerPersisted /\ MetaShape)

IsEmptyOrGarbage(question) ==
    trim(question) = <<>> \/ isGarbageQuestion(trim(question))

\* C5 (amended): every terminal branch of handleChat returns metadata of that
\* shape; every terminal branch except the empty-question and the
\* garbage-question guard persists the assistant's answer as a chat row
\* (role assistant, no key) before returning, and those two return without
\* any call on the store.
C5_PersistsExceptEmptyAndGarbage ==
    req.pc = "done" =>
        /\ MetaShape
        /\ IF IsEmptyOrGarbage(req.question)
           THEN req.trace = <<>> /\ req.branch \in {"empty", "garbage"}
           ELSE AnswerPersisted

C5_Witness ==
    /\ req.pc = "done"
    /\ req.branch = "recall"
    /\ req.response.answer = <<"Your preferences include ", "t", "e", "a", ".">>
    /\ AnswerPersisted

ResolvedUnknown ==
    /\ req.intent # "none"
    /\ detectHighLevelIntent(req.keyFact, req.hasPolicyKeyword,
                             req.isDirectPersonalQuestion) = "UNKNOWN"

Dispatched == req.branch \in {"memory", "merged", "policy", "unknown"}

\* C6: for a request whose resolved intent is UNKNOWN a probe RAG lookup
\* precedes dispatch; the request is dispatched to the PURE_POLICY_QUERY
\* pipeline if the probe returned a chunk and to the unknown pipeline
\* otherwise; there, without RAG context and without memory text the answer is
\* the clarification request and the completion port is not called for it,
\* and with either the completion port is called with the RAG context (if
\* any) and the memory text.
C6_UnknownProbeAndDispatch ==
    ResolvedUnknown =>
        /\ ~Dispatched => req.pc \in {"probe", "threw"}
        /\ Dispatched =>
              /\ Len(req.trace) >= 4
              /\ SubSeq(req.trace, 1, 4) =
                    <<"llm.classify", "mem.facts", "embed", "chunks.query">>
              /\ req.probeChunks > 0 =>
                    req.branch = "policy" /\ req.intent = "PURE_POLICY_QUERY"
              /\ req.probeChunks = 0 =>
                    req.branch = "unknown" /\ req.intent = "UNKNOWN"
        /\ (req.branch = "unknown" /\ HasEvent(req.trace, "mem.retrieve")) =>
              LET hasRag == req.ragResult.finalChunks # <<>>
                  hasMemory == req.memoryText # <<>>
              IN  IF ~hasRag /\ ~hasMemory
                  THEN /\ ~HasEvent(req.trace, "llm.answer")
                       /\ req.pc \in {"saveChat", "done", "threw"}
                       /\ req.answer = AnsUnknownClarify
                  ELSE /\ req.pc \in {"complete", "saveChat", "done", "threw"}
                       /\ req.pc # "complete" => HasEvent(req.trace, "llm.answer")
                       /\ req.llmContext = (IF hasRag THEN req.ragContext ELSE <<>>)

C6_Witness ==
    /\ ResolvedUnknown
    /\ req.pc = "done"
    /\ req.branch = "unknown"
    /\ req.ragResult.finalChunks = <<>>
    /\ req.memoryText # <<>>
    /\ HasEvent(req.trace, "llm.answer")

FastPathQuestions == {QNameAl, QNameDot, QNameNone, QLikeTea, QNowLike}

\* the fact a fast-path question states
StatedFact(question) ==
    CASE question = QNameAl -> [key |-> "name", value |-> <<"A", "l">>]
      [] question = QNameDot -> [key |-> "name", value |-> <<"B", "o">>]
      [] question \in {QLikeTea, QNowLike} ->
            [key |-> "preference", value |-> <<"t", "e", "a">>]
      [] OTHER -> [key |-> "name", value |-> <<>>]

FactStored(userId, key, value) ==
    \E i \in 1..Len(rows) :
        /\ rows[i].user_id = userId
        /\ rows[i].memory_key = key
        /\ rows[i].content = value
        /\ rows[i].memory_type = "fact"

\* C7: a question that matches "my name is X" or "I (now) like X" is served
\* without any completion-port call (neither classification nor answer) and
\* without any chunk lookup; once the fact save returned the fact is stored
\* under its key, and the request returns the templated answer.
C7_FastPathsSkipLlmAndRag ==
    (req.pc # "idle" /\ req.question \in FastPathQuestions) =>
        LET fact == StatedFact(req.question) IN
        /\ ~HasEvent(req.trace, "llm.classify")
        /\ ~HasEvent(req.trace, "llm.answer")
        /\ ~HasEvent(req.trace, "chunks.query")
        /\ req.pc \in {"saveFact", "saveChat", "done", "threw"}
        /\ req.pc \in {"saveChat", "done"} =>
              FactStored(req.userId, fact.key, fact.value)
        /\ req.pc = "done" =>
              /\ req.response.answer =
                    (IF fact.key = "name"
                     THEN <<"Hello, ">> \o fact.value
                          \o <<"! How can I assist you today?">>
                     ELSE <<"Got it! I'll remember that you like ">> \o fact.value
                          \o <<".">>)
              /\ req.trace = <<"embed", "mem.saveFact", "embed", "mem.saveChat">>

C7_Witness ==
    /\ req.pc = "done"
    /\ req.question = QNowLike
    /\ FactStored(req.userId, "preference", <<"t", "e", "a">>)
    /\ req.response.answer =
          <<"Got it! I'll remember that you like ", "t", "e", "a", ".">>

\* C8: an empty or whitespace-only question and a garbage question end at once
\* in the templated answer: no completion call, no embedding call, no chunk
\* lookup and no store call occur, contextUsed is [] and memoryUsed is false.
C8_EmptyAndGarbageShortCircuit ==
    (req.pc # "idle" /\ req.question \in {QEmpty, QBlank, QGarbage, QShort}) =>
        /\ req.pc = "done"
        /\ req.trace = <<>>
        /\ req.response.answer =
              (IF req.question \in {QEmpty, QBlank} THEN <<"question required">>
               ELSE AnsGarbage)
        /\ req.response.contextUsed = <<>>
        /\ req.response.memoryUsed = FALSE
        /\ req.response.history =
              req.history \o <<UserTurn(req.question),
                               AssistantTurn(req.response.answer)>>

C8_Witness ==
    /\ req.pc = "done"
    /\ req.question = QGarbage
    /\ req.response.answer = AnsGarbage
    /\ rows # <<>>

\* C12 (as stated): however the concurrent repository calls interleave, the
\* column-existence query is sent to the store at most once per process.
C12_AsStated == columnCalls.queries <= 1

\* C13: under every interleaving of concurrent fact saves, each (userId,
\* memoryKey) has at most one row; once a save's upsert ran, the pair has exactly
\* one row, and its content and embedding are both those of the save whose
\* upsert ran last.
C13_OneRowFromLastUpsert ==
    \A u \in WriterUsers, k \in FactKeys :
        LET hit == ConflictIdx(rows, u, k) IN
        /\ Cardinality(hit) <= 1
        /\ \A w \in lastUpsert[<<u, k>>] :
              /\ Cardinality(hit) = 1
              /\ \A i \in hit :
                    /\ rows[i].content = writers[w].content
                    /\ rows[i].embedding = trim(writers[w].content)
                    /\ rows[i].memory_type = "fact"

\* two saves of different contents for a pair the store already held, both done
C13_Witness ==
    /\ writers[1].pc = "done" /\ writers[2].pc = "done"
    /\ writers[1].memoryKey = "name" /\ writers[2].memoryKey = "name"
    /\ writers[1].content = <<"b", " ">> /\ writers[2].content = <<"c">>
    /\ lastUpsert[<<"u1", "name">>] = {1}
    /\ Len(rows) = 2

\* ---- C14 ----
RankScoresDescend(table, picked) ==
    \A a, b \in 1..Len(picked) :
        a < b => Score100(table[picked[a]]) >= Score100(table[picked[b]])

SeqRange(seq) == {seq[k] : k \in 1..Len(seq)}

\* the candidates are the matching rows nearest by distance
RankNearest(table, matching, candidates, limit) ==
    /\ Len(candidates) = MinOf(CandidateLimit(limit), Cardinality(matching))
    /\ SeqRange(candidates) \subseteq matching
    /\ Cardinality(SeqRange(candidates)) = Len(candidates)
    /\ \A i \in SeqRange(candidates), j \in matching \ SeqRange(candidates) :
          table[i].distance <= table[j].distance

\* the picked rows are the `limit` best candidates by score, best first
RankTop(table, candidates, picked, limit) ==
    /\ Len(picked) = MinOf(limit, Len(candidates))
    /\ SeqRange(picked) \subseteq SeqRange(candidates)
    /\ Cardinality(SeqRange(picked)) = Len(picked)
    /\ RankScoresDescend(table, picked)
    /\ \A i \in SeqRange(picked), j \in SeqRange(candidates) \ SeqRange(picked) :
          Score100(table[i]) >= Score100(table[j])

RankAsSpecified ==
    LET table == rankIn.table
        matching == RankMatching(table, rankIn.userId, rankIn.role) IN
    /\ Len(rankOut.contents) <= rankIn.limit
    /\ RankNearest(table, matching, rankOut.candidates, rankIn.limit)
    /\ RankTop(table, rankOut.candidates, rankOut.picked, rankIn.limit)
    /\ rankOut.contents = RankContents(table, rankOut.picked)

RankReproducible ==
    retrieveMemoryRanked(rankIn.table, rankIn.userId, rankIn.limit, rankIn.role)
        = {rankOut.contents}

NoDistanceTies ==
    LET matching == RankMatching(rankIn.table, rankIn.userId, rankIn.role) IN
    \A i, j \in matching :
        i # j => rankIn.table[i].distance # rankIn.table[j].distance

\* the scores the formula gives the five kinds of row: 0.6*1 + 0.3*1 = 0.90,
\* 0.6*0.5 + 0.3*0.5 + 0.2 = 0.65, 0.6*0.5 + 0 = 0.30, 0 + 0.3*1 + 0.2 = 0.50,
\* 0.6*1 + 0.3*1 + 0.2 = 1.10
RankScoresAsSpecified ==
    \A row \in RankRowKinds :
        Score100(row) = (CASE row.content = "near" -> 90
                           [] row.content = "fact" -> 65
                           [] row.content = "old" -> 30
                           [] row.content = "far" -> 50
                           [] OTHER -> 110)

\* C14 (as stated): retrieveMemory returns at most `limit` contents, the best
\* `limit` by score in descending order among the max(limit*3, limit) matching
\* rows nearest by distance, and the same table, limit and role always give the
\* same result.
C14_AsStated ==
    rankOut.done => (RankAsSpecified /\ RankScoresAsSpecified /\ RankReproducible)

\* C14: retrieveMemory returns at most `limit` contents, the best `limit` by
\* score in descending order among the max(limit*3, limit) matching rows nearest
\* by distance; the result is the same on every call when no two matching rows
\* are at the same distance.
C14_RankedTopLimit ==
    rankOut.done =>
        /\ RankAsSpecified
        /\ RankScoresAsSpecified
        /\ NoDistanceTies => RankReproducible

\* limit 1 on four matching rows: the three nearest are the candidates, and the
\* far fact, which scores higher than each of them, is not returned
C14_Witness ==
    /\ rankOut.done
    /\ rankIn.limit = 1 /\ rankIn.role = "any"
    /\ Len(rankIn.table) = 4
    /\ rankIn.table[1].content = "far"
    /\ \A i \in 2..4 : rankIn.table[i].content = "old"
    /\ rankOut.candidates = <<2, 3, 4>>
    /\ rankOut.contents = <<"old">>

\* C15: after any sequence of saves, every answer of getLatestFactsByKey(userId)
\* has exactly one entry per fact key the user has written, carrying the content
\* of the latest write of that key, and no entry for a chat row.
C15_LatestFactPerKey ==
    \A u \in Users :
        \A facts \in getLatestFactsByKey(rows, u) :
            LET written == {k \in FactKeys : latestFact[<<u, k>>] # NoFact} IN
            /\ Len(facts) = Cardinality(written)
            /\ {facts[i].memory_key : i \in 1..Len(facts)} = written
            /\ \A i \in 1..Len(facts) :
                  facts[i].content = latestFact[<<u, facts[i].memory_key>>]

\* a fact overwritten with a different content, next to nothing else
C15_Witness ==
    /\ nCalls = 2
    /\ lastCall.path = "fact"
    /\ lastCall.replaced # NoFact
    /\ lastCall.replaced # lastCall.content
    /\ getLatestFactsByKey(rows, lastCall.userId) =
          {<<[memory_key |-> lastCall.memoryKey, content |-> lastCall.content]>>}

\* C16: the history of every response is the caller's history followed by the
\* user turn carrying the question and the assistant turn carrying the answer.
C16_HistoryExtendedByOneExchange ==
    req.pc = "done" =>
        /\ Len(req.response.history) = Len(req.history) + 2
        /\ SubSeq(req.response.history, 1, Len(req.history)) = req.history
        /\ req.response.history[Len(req.history) + 1] =
              [role |-> "user", content |-> req.question]
        /\ req.response.history[Len(req.history) + 2] =
              [role |-> "assistant", content |-> req.response.answer]

\* a completion-derived answer appended to a non-empty caller history
C16_Witness ==
    /\ req.pc = "done"
    /\ req.history # <<>>
    /\ req.branch = "policy"
    /\ HasEvent(req.trace, "llm.answer")

\* C17: "My name is X" persists the fact (userId, "name") = X without its
\* trailing punctuation, answers "Hello, X! How can I assist you today?" and
\* returns contextUsed = [] and memoryUsed = true.
C17_NameFastPath ==
    \A q \in {QNameAl, QNameDot} :
        (req.pc = "done" /\ req.question = q) =>
            LET X == IF q = QNameAl THEN <<"A", "l">> ELSE <<"B", "o">> IN
            /\ FactStored(req.userId, "name", X)
            /\ Cardinality(ConflictIdx(rows, req.userId, "name")) = 1
            /\ req.response.answer =
                  <<"Hello, ">> \o X \o <<"! How can I assist you today?">>
            /\ req.response.contextUsed = <<>>
            /\ req.response.memoryUsed = TRUE

\* "my name is Bo." answered for a user whose stored name was Al
C17_Witness ==
    /\ req.pc = "done"
    /\ req.question = QNameDot
    /\ req.userId = "u1"
    /\ FactStored("u1", "name", <<"B", "o">>)
    /\ ~FactStored("u1", "name", <<"A", "l">>)
    /\ Len(rows) = 3

\* ---- C18 ----
\* the reply is not JSON from its first brace on, or is JSON without a key or
\* without a string intent
MalformedReply(r) ==
    \/ r.pre = "brace"
    \/ r.post
    \/ r.body.kind = "none"
    \/ r.body.kind \in {"null", "scalar"}
    \/ r.body.key \in {Undefined, ""}
    \/ r.body.intent \in {Undefined, "<number>"}

\* C18: whatever the completion replies, extractDynamicKeyFact does not throw;
\* on a reply that does not parse, or parses to a value without a key or without
\* a string intent, it returns null and handleChat goes on exactly as with no
\* fact extracted.
C18_MalformedReplyIsNoFact ==
    cls.done =>
        /\ ~cls.threw
        /\ MalformedReply(cls.reply) =>
              /\ cls.keyFact = NoFactCandidate
              /\ cls.next = ClsNext(AfterClassify(Receive("u1", cls.question, <<>>),
                                                  NoFactCandidate))

\* prose containing a brace before the JSON object
C18_Witness ==
    /\ cls.done
    /\ cls.reply = Reply("brace", JsonObject("name", <<"A", "l">>, "introducing"), FALSE)
    /\ cls.question = QHello
    /\ cls.next.pc = "latestFacts"

\* C19 (as stated): a failure of the completion or the embedding port leaves
\* handleChat as a throw, and the HTTP boundary answers it with status 502.
C19_AsStated ==
    (req.pc = "threw" /\ req.error.source \in {"completion", "embedding"}) =>
        req.httpStatus = 502

\* C20 (as stated): handleChat ends in an exception only when a port failed.
C20_AsStated ==
    req.pc = "threw" => req.error.source \in {"completion", "embedding"}

\* C21: detectHighLevelIntent gives, for every candidate and every pair of flags,
\* the result of the first matching rule: intent 'asking' -> MERGED with a policy
\* keyword, PURE_MEMORY without; no candidate and a direct personal question ->
\* PURE_MEMORY; a policy keyword -> PURE_POLICY; otherwise UNKNOWN.
C21_IntentRulesInOrder ==
    (pure.fn = "detectHighLevelIntent" /\ pure.done) =>
        LET asking == ~pure.keyFact.isNull /\ pure.keyFact.intent = "asking" IN
        /\ pure.intent \in {"PURE_MEMORY_QUERY", "PURE_POLICY_QUERY",
                            "MERGED_MEMORY_POLICY_QUERY", "UNKNOWN"}
        /\ (asking /\ pure.hasPolicyKeyword)
              => pure.intent = "MERGED_MEMORY_POLICY_QUERY"
        /\ (asking /\ ~pure.hasPolicyKeyword) => pure.intent = "PURE_MEMORY_QUERY"
        /\ (~asking /\ pure.keyFact.isNull /\ pure.isDirectPersonalQuestion)
              => pure.intent = "PURE_MEMORY_QUERY"
        /\ (~asking /\ ~(pure.keyFact.isNull /\ pure.isDirectPersonalQuestion)
                /\ pure.hasPolicyKeyword)
              => pure.intent = "PURE_POLICY_QUERY"
        /\ (~asking /\ ~(pure.keyFact.isNull /\ pure.isDirectPersonalQuestion)
                /\ ~pure.hasPolicyKeyword)
              => pure.intent = "UNKNOWN"

\* no candidate, a direct personal question and a policy keyword: rule 2 wins
\* over rule 3
C21_Witness ==
    /\ pure.fn = "detectHighLevelIntent" /\ pure.done
    /\ pure.keyFact.isNull
    /\ pure.isDirectPersonalQuestion /\ pure.hasPolicyKeyword
    /\ pure.intent = "PURE_MEMORY_QUERY"

\* ---- C26 ----
\* [a..b] is a maximal run of non-blank characters of t
IsWordRun(t, a, b) ==
    /\ a <= b
    /\ \A i \in a..b : t[i] \notin WS
    /\ (a = 1 \/ t[a - 1] \in WS)
    /\ (b = Len(t) \/ t[b + 1] \in WS)

HasMeaningfulToken(t) ==
    \E a, b \in 1..Len(t) :
        /\ IsWordRun(t, a, b)
        /\ SelectSeq(toLowerCase(SubSeq(t, a, b)), IsLowerLetter) \in MEANINGFUL_TOKENS

CountOf(t, chars) == Cardinality({i \in 1..Len(t) : t[i] \in chars})

GarbageAsSpecified(text) ==
    LET t == trim(text) IN
    \/ t = <<>>
    \/ Len(t) < 4
    \/ /\ ~HasMeaningfulToken(t)
       /\ (CountOf(t, Digits) >= 1 \/ CountOf(t, {"?", "!"}) >= 2)
       /\ CountOf(t, Letters) < 20

\* C26: isGarbageQuestion(text) is true exactly when the trimmed text is empty,
\* or shorter than 4 characters, or has no meaningful token while it contains a
\* digit or two of '?'/'!' and fewer than 20 letters; "asdkj!!1" is garbage and
\* "What does the policy say about coffee?" is not.
C26_GarbageExactly ==
    (pure.fn = "isGarbageQuestion" /\ pure.done) =>
        /\ pure.garbage = GarbageAsSpecified(pure.text)
        /\ pure.text = QAsdkj => pure.garbage
        /\ pure.text = QCoffee => ~pure.garbage

\* a text of twenty letters, a digit and no meaningful token: not garbage
C26_Witness ==
    /\ pure.fn = "isGarbageQuestion" /\ pure.done
    /\ Len(pure.text) = 21
    /\ pure.text[21] = "9"
    /\ ~pure.garbage

\* ---- C22, C23 ----
\* the request was classified and the classifier extracted a fact with a value
\* and intent introducing or updating
ClassifiedStatedFact ==
    /\ req.pc \notin {"idle", "classify"}
    /\ ~req.keyFact.isNull
    /\ req.keyFact.value # <<>>
    /\ req.keyFact.intent \in {"introducing", "updating"}

CountEvents(trace, e) == Cardinality({i \in 1..Len(trace) : trace[i] = e})

\* C22 (as stated): an extracted identity fact with a value and intent
\* introducing or updating is persisted under its key and answered with the
\* greeting, and the request ends without reaching the pipeline dispatch.
C22_AsStated ==
    (ClassifiedStatedFact /\ req.keyFact.key \in IDENTITY_KEYS) =>
        /\ req.branch = "identityFact"
        /\ req.pc \in {"saveFact", "saveChat", "done", "threw"}
        /\ ~HasEvent(req.trace, "mem.facts")
        /\ ~HasEvent(req.trace, "chunks.query")
        /\ req.pc \in {"saveChat", "done"} =>
              FactStored(req.userId, req.keyFact.key, req.keyFact.value)
        /\ req.pc = "done" =>
              req.response.answer =
                  <<"Hello, ">> \o req.keyFact.value \o <<"! How can I assist you today?">>

\* C23: an extracted non-identity fact with a value and intent introducing or
\* updating is persisted under the extracted key and acknowledged with the
\* template; the assistant row is written and the request ends without chunk
\* lookup, memory retrieval, fact listing or a second completion call.
C23_OtherFactTerminal ==
    (ClassifiedStatedFact /\ req.keyFact.key \notin IDENTITY_KEYS) =>
        /\ req.branch = "otherFact"
        /\ req.pc \in {"saveFact", "saveChat", "done", "threw"}
        /\ ~HasEvent(req.trace, "chunks.query")
        /\ ~HasEvent(req.trace, "mem.retrieve")
        /\ ~HasEvent(req.trace, "mem.facts")
        /\ ~HasEvent(req.trace, "llm.answer")
        /\ CountEvents(req.trace, "llm.classify") = 1
        /\ req.pc \in {"saveChat", "done"} =>
              FactStored(req.userId, req.keyFact.key, req.keyFact.value)
        /\ req.pc = "done" =>
              /\ req.response.answer =
                    <<"Got it! I'll remember that you ">> \o StripLeadingI(req.question)
                        \o <<".">>
              /\ req.response.contextUsed = <<>>
              /\ req.response.memoryUsed = TRUE
              /\ AnswerPersisted
              /\ req.trace = <<"llm.classify", "embed", "mem.saveFact", "embed",
                               "mem.saveChat">>

\* "I love jazz" classified as food = jazz: stored and acknowledged
C23_Witness ==
    /\ req.pc = "done"
    /\ req.question = QILove
    /\ req.keyFact.key = "food"
    /\ req.keyFact.intent = "introducing"
    /\ FactStored(req.userId, "food", <<"j", "a", "z", "z">>)
    /\ req.response.answer =
          <<"Got it! I'll remember that you ", "l", "o", "v", "e", " ", "j", "a", "z",
            "z", ".">>

\* C24 (as stated): a request resolved to PURE_MEMORY_QUERY makes no completion
\* call for the answer and no chunk-store lookup, and its response has
\* contextUsed = [] and all-zero rag metadata.
C24_AsStated ==
    (req.pc # "idle" /\ req.intent = "PURE_MEMORY_QUERY") =>
        /\ ~HasEvent(req.trace, "llm.answer")
        /\ ~HasEvent(req.trace, "chunks.query")
        /\ req.pc = "done" =>
              /\ req.response.contextUsed = <<>>
              /\ req.response.meta.rag = ZeroRag

\* C27 (as stated): extractDynamicKeyFact returns null or a candidate whose
\* intent is introducing, updating, asking or neutral.
C27_AsStated ==
    cls.done =>
        \/ cls.keyFact.isNull
        \/ cls.keyFact.intent \in {"introducing", "updating", "asking", "neutral"}

\* C28: in every response, meta.rag.chunksReturned is the number of elements of
\* contextUsed.
C28_ChunksReturnedIsContextSize ==
    req.pc = "done" =>
        req.response.meta.rag.chunksReturned = Len(req.response.contextUsed)

\* a policy answer built on one chunk
C28_Witness ==
    /\ req.pc = "done"
    /\ req.branch = "policy"
    /\ Len(req.response.contextUsed) = 1
    /\ req.response.meta.rag.chunksReturned = 1

\* ---- C25 ----
\* the first of the pre-classification conditions the question meets, in the
\* order handleChat tests them
FirstFastMatch(question) ==
    LET t == trim(question) IN
    IF t = <<>> THEN "empty"
    ELSE IF isGarbageQuestion(t) THEN "garbage"
    ELSE IF nameMatch(t).matched THEN "name"
    ELSE IF likeMatch(t).matched THEN "like"
    ELSE IF IsCannedRecall(toLowerCase(t)) THEN "recall"
    ELSE "classify"

\* the same, tabulated over the questions of the model
FirstFastMatchOf == [q \in Questions |-> FirstFastMatch(q)]

TraceWithin(trace, events) == \A i \in 1..Len(trace) : trace[i] \in events

\* the conditions of the two classified-fact branches, as handleChat tests them
IsClassifiedIdentityFact(keyFact) ==
    /\ ~keyFact.isNull /\ keyFact.intent = "introducing"
    /\ keyFact.value # <<>> /\ keyFact.key \in IDENTITY_KEYS

IsClassifiedOtherFact(keyFact) ==
    /\ ~keyFact.isNull /\ keyFact.intent \in {"introducing", "updating"}
    /\ keyFact.value # <<>> /\ keyFact.key \notin IDENTITY_KEYS

\* C25: the branch that serves a request is the first whose condition matches,
\* in the order empty, garbage, name pattern, like pattern, canned recall,
\* classified identity fact, classified non-identity fact, pipeline dispatch; the
\* request makes only the calls of that branch, and a question matching both the
\* name and the like pattern is stored as a name only.
C25_FirstMatchWins ==
    req.pc # "idle" =>
        LET first == FirstFastMatchOf[req.question]
            classified == HasEvent(req.trace, "llm.classify") IN
        /\ first # "classify" => req.branch = first
        /\ req.pc = "done" => req.branch # "none"
        /\ req.branch \in {"empty", "garbage"} => (req.pc = "done" /\ req.trace = <<>>)
        /\ req.branch \in {"name", "like"} =>
              /\ TraceWithin(req.trace, {"embed", "mem.saveFact", "mem.saveChat"})
              /\ req.factKey = (IF req.branch = "name" THEN "name" ELSE "preference")
        /\ req.branch = "recall" =>
              TraceWithin(req.trace, {"mem.facts", "embed", "mem.saveChat"})
        /\ first = "classify" =>
              /\ ~classified => req.branch = "none"
              /\ (classified /\ IsClassifiedIdentityFact(req.keyFact))
                    => req.branch = "identityFact"
              /\ (classified /\ ~IsClassifiedIdentityFact(req.keyFact)
                     /\ IsClassifiedOtherFact(req.keyFact))
                    => req.branch = "otherFact"
              /\ (classified /\ ~IsClassifiedIdentityFact(req.keyFact)
                     /\ ~IsClassifiedOtherFact(req.keyFact))
                    => req.branch \in {"none", "memory", "merged", "policy", "unknown"}
        /\ req.branch \in {"identityFact", "otherFact"} =>
              TraceWithin(req.trace,
                          {"llm.classify", "embed", "mem.saveFact", "mem.saveChat"})
        /\ req.question = QLikeName =>
              /\ req.branch = "name"
              /\ \A i \in 1..Len(rows) :
                    rows[i].memory_key = "preference" => rows[i].content = PrefTea
              /\ req.pc \in {"saveChat", "done"} =>
                    FactStored(req.userId, "name", NameAl)

\* "I like that my name is Al" answered as a name, for a user without any fact
C25_Witness ==
    /\ req.pc = "done"
    /\ req.question = QLikeName
    /\ req.userId = "u2"
    /\ Len(rows) = 2
    /\ FactStored("u2", "name", NameAl)
    /\ req.response.answer = Greeting(NameAl)

\* ---- C29 ----
IsAssistantRow(row) == row.role = "assistant"

\* C29: a request writes at most one fact and at most one assistant chat row,
\* the fact first; the chat write is its last interaction; a request that threw
\* has written no assistant row; the branches that state a fact write exactly
\* one fact and one chat row.
C29_WritesOrdered ==
    req.pc # "idle" =>
        LET t == req.trace IN
        /\ CountEvents(t, "mem.saveFact") <= 1
        /\ CountEvents(t, "mem.saveChat") <= 1
        \* the chat write is the last entry, hence after the fact write
        /\ \A i \in 1..Len(t) : t[i] = "mem.saveChat" => i = Len(t)
        /\ HasEvent(t, "mem.saveChat") => req.pc = "done"
        /\ req.pc = "threw" =>
              /\ ~HasEvent(t, "mem.saveChat")
              /\ \E s \in SeedStores :
                    SelectSeq(rows, IsAssistantRow) = SelectSeq(s.rows, IsAssistantRow)
        /\ (req.pc = "done"
               /\ req.branch \in {"name", "like", "identityFact", "otherFact"}) =>
              /\ CountEvents(t, "mem.saveFact") = 1
              /\ CountEvents(t, "mem.saveChat") = 1

\* the fact was persisted, then the embedding for the assistant row failed
C29_Witness ==
    /\ req.pc = "threw"
    /\ req.question = QLikeTea
    /\ req.trace = <<"embed", "mem.saveFact", "embed">>
    /\ FactStored(req.userId, "preference", PrefTea)
    /\ Len(rows) = 1

\* C30: every row is a user fact row with a key or an assistant chat row without
\* one, so what retrieveMemory(userId, ..., "user") selects from are fact rows.
C30_RowsAreUserFactsOrAssistantChats ==
    /\ \A i \in 1..Len(rows) :
          \/ /\ rows[i].role = "user"
             /\ rows[i].memory_type = "fact"
             /\ rows[i].memory_key \notin {NULL, Undefined, ""}
          \/ /\ rows[i].role = "assistant"
             /\ rows[i].memory_type = "chat"
             /\ rows[i].memory_key = NULL
    \* before a request, and where the pipelines retrieve
    /\ req.pc \in {"idle", "buildRagAndMemory"} =>
          \A u \in (IF req.pc = "idle" THEN ChatUsers ELSE {req.userId}) :
              \A memories \in retrieveMemory(rows, u, SimilarTopK, "user") :
                  \A k \in 1..Len(memories) :
                      \E i \in 1..Len(rows) :
                          /\ rows[i].user_id = u
                          /\ rows[i].memory_type = "fact"
                          /\ rows[i].content = memories[k]

\* a request that stored a preference next to an earlier exchange
C30_Witness ==
    /\ req.pc = "done"
    /\ req.branch = "like"
    /\ req.userId = "u1"
    /\ Len(rows) = 4
    /\ FactStored("u1", "name", NameAl)
    /\ FactStored("u1", "preference", PrefTea)

\* ---- C31 ----
\* handleChat has called detectHighLevelIntent for this request
IntentResolved ==
    /\ req.pc \in {"probe", "buildRagAndMemory", "complete", "saveChat", "done", "threw"}
    /\ req.branch \in {"none", "memory", "merged", "policy", "unknown"}
    /\ HasEvent(req.trace, "mem.facts")

\* C31: for a direct personal question the extractor found nothing in, the
\* synthetic candidate (key "unknown", intent asking) stands in for null before
\* the intent is resolved: the second rule of detectHighLevelIntent never
\* decides, the intent is MERGED_MEMORY_POLICY_QUERY with a policy keyword and
\* PURE_MEMORY_QUERY without, and the pure memory answer is the fixed "no stored
\* memory" sentence with memoryUsed false, whatever facts are stored.
C31_SyntheticAskingDecides ==
    IntentResolved =>
        /\ ~(req.keyFact.isNull /\ req.isDirectPersonalQuestion)
        /\ (req.isDirectPersonalQuestion /\ req.keyFact = SyntheticAsking) =>
              /\ req.intent = IF req.hasPolicyKeyword
                              THEN "MERGED_MEMORY_POLICY_QUERY"
                              ELSE "PURE_MEMORY_QUERY"
              /\ (req.intent = "PURE_MEMORY_QUERY"
                     /\ req.pc \in {"saveChat", "done"}) =>
                    /\ req.branch = "memory"
                    /\ req.answer = AnsNoMemory
                    /\ req.memoryUsed = FALSE
              /\ (req.intent = "PURE_MEMORY_QUERY" /\ req.pc = "done") =>
                    /\ req.response.answer = AnsNoMemory
                    /\ req.response.memoryUsed = FALSE

\* "Do I own a car" for a user with a stored name and preference
C31_Witness ==
    /\ req.pc = "done"
    /\ req.question = QPersonal
    /\ req.keyFact = SyntheticAsking
    /\ Len(req.latestFacts) = 2
    /\ req.intent = "PURE_MEMORY_QUERY"
    /\ req.response.answer = AnsNoMemory
    /\ req.response.memoryUsed = FALSE

\* ---- C32 ----
\* C32 (as stated): in a request dispatched to handleUnknownQuery the pipeline's
\* own lookup yields no chunks, so hasRag is false, contextUsed is [] and the rag
\* metadata is all zeros, also when chunks are ingested between the probe and
\* the pipeline's lookup.
C32_AsStated ==
    (req.branch = "unknown" /\ HasEvent(req.trace, "mem.retrieve")) =>
        /\ Len(req.ragResult.finalChunks) = 0
        /\ req.pc = "done" =>
              /\ req.response.contextUsed = <<>>
              /\ req.response.meta.rag = ZeroRag

\* ---- C33 ----
\* C33: saveMemory obtains the embedding before it touches the store: when the
\* embedding step fails (the port fails, or the content is empty or blank,
\* which is rejected without a port call) saveMemory throws and the table and
\* its sequence are as before.
C33_FailedEmbeddingLeavesStore ==
    [][nCalls' = nCalls + 1 =>
          LET c == lastCall'
              portFails == saveMemory(rows, nextId, c.userId, c.role, c.content,
                                      c.memoryKey, c.memoryType, FALSE)
              portWorks == saveMemory(rows, nextId, c.userId, c.role, c.content,
                                      c.memoryKey, c.memoryType, TRUE)
          IN  /\ c.threw => (rows' = rows /\ nextId' = nextId)
              /\ ~c.threw => (rows' # rows /\ nextId' = nextId + 1)
              /\ trim(c.content) = <<>> =>
                    /\ c.threw
                    /\ ~portFails.embedCalled /\ ~portWorks.embedCalled
              /\ portFails.threw /\ portFails.rows = rows /\ portFails.nextId = nextId
              /\ trim(c.content) # <<>> =>
                    /\ portFails.embedCalled
                    /\ ~portWorks.threw
                    /\ c.threw = (rows' = rows)]_vars

\* an update of a stored fact fails at the embedding port: the fact is as before
C33_Witness ==
    /\ nCalls = 2
    /\ Len(rows) = 1
    /\ lastCall.threw
    /\ lastCall.content = <<"a">>
    /\ lastCall.memoryType = "fact"
    /\ lastCall.memoryKey = "name"
    /\ rows[1].user_id = lastCall.userId
    /\ rows[1].memory_key = "name"
    /\ rows[1].content = <<"b", " ">>

\* ---- C34 ----
\* some row of user u in the table carries this content
ContentOfUser(table, u, content) ==
    \E i \in 1..Len(table) : table[i].user_id = u /\ table[i].content = content

\* C34: retrieveMemory(u, ...) and getLatestFactsByKey(u) return contents of
\* rows of u only, and a save made for another user leaves every result for u
\* as it was (so runs that differ in other users' saves agree on u).
C34_UsersIsolated ==
    \* a call that threw left the table, hence every result, as it was
    [][(nCalls' = nCalls + 1 /\ rows' # rows) =>
          \A u \in Users :
              /\ \A facts \in getLatestFactsByKey(rows', u) :
                    \A k \in 1..Len(facts) :
                        \E i \in 1..Len(rows') :
                            /\ rows'[i].user_id = u
                            /\ rows'[i].memory_key = facts[k].memory_key
                            /\ rows'[i].content = facts[k].content
              \* the widest retrieval: every role, more than the table holds
              /\ \A memories \in retrieveMemory(rows', u, SimilarTopK, "any") :
                    \A k \in 1..Len(memories) : ContentOfUser(rows', u, memories[k])
              /\ u # lastCall'.userId =>
                    /\ getLatestFactsByKey(rows', u) = getLatestFactsByKey(rows, u)
                    /\ \A role \in Roles \cup {"any"} :
                          retrieveMemory(rows', u, SimilarTopK, role)
                              = retrieveMemory(rows, u, SimilarTopK, role)
                    /\ retrieveMemory(rows', u, 1, "user")
                          = retrieveMemory(rows, u, 1, "user")]_vars

\* u2 stores a name after u1 stored one: both rows stand side by side
C34_Witness ==
    /\ nCalls = 2
    /\ Len(rows) = 2
    /\ rows[1].user_id = "u1" /\ rows[1].memory_key = "name"
    /\ rows[2].user_id = "u2" /\ rows[2].memory_key = "name"
    /\ rows[1].content # rows[2].content
    /\ lastCall.userId = "u2" /\ ~lastCall.threw

\* ---- C35 ----
\* C35 (as stated): all calls of ensureConversationIdColumn in a process return
\* the same boolean, under every interleaving and every pattern of success and
\* failure of their queries.
C35_AsStated ==
    \A a, b \in ColumnCallers :
        (columnCalls.pc[a] = "returned" /\ columnCalls.pc[b] = "returned")
            => columnCalls.ret[a] = columnCalls.ret[b]

\* ---- C36 ----
\* C36 (as stated): once a column-existence query has failed, the failure is
\* cached as "column absent": the call returns false without an error, no call
\* issues the query again and the cached value stays false from then on.
C36_AsStated ==
    [][columnCalls.failed =>
          /\ conversationIdColumnChecked
          /\ ~conversationIdColumnExists'
          /\ columnCalls'.queries = columnCalls.queries
          /\ \A c \in ColumnCallers :
                (columnCalls.pc[c] # "returned" /\ columnCalls'.pc[c] = "returned")
                    => ~columnCalls'.ret[c]]_vars

\* ---- C37 ----
\* C37 (as stated): with the conversation column present, after a fact save for
\* user u, key k and conversation c has succeeded, getLatestFactsByKey(u, c)
\* contains k with the saved content, also when k was first saved for u in
\* another conversation.
C37_AsStated ==
    (/\ conv.columnExists
     /\ conv.calls > 0
     /\ ~conv.last.threw
     /\ conv.last.memoryType = "fact"
     /\ conv.last.conversationId \in ConversationIds) =>
        [memory_key |-> conv.last.memoryKey, content |-> conv.last.content]
            \in getLatestFactsByKeyInConversation(conv.rows, conv.last.userId,
                                                  conv.last.conversationId,
                                                  conv.columnExists)

====
